---- MODULE Spec2Model ----
(***************************************************************************)
(* A model of the CraneSched node agent (Craned) and of the per-job        *)
(* Supervisor's I/O forwarding client:                                     *)
(*   - the Job Manager event loop (JobManager.cpp): execute, launch,       *)
(*     timer, terminate and status-change callbacks;                       *)
(*   - SpawnProcessInInstance_ (fork, the handshake of parent and child)   *)
(*     and what LaunchTaskInstanceMt_ does with its return value;          *)
(*   - the cgroup recovery scan (CgroupManager.cpp);                       *)
(*   - the startup handshake of GlobalVariableInit;                        *)
(*   - the CforedClient stream state machine and its writer thread;        *)
(*   - the construction of a task's environment and its application in     *)
(*     the child (JobManager.cpp);                                         *)
(*   - the allocation of one job's cgroup and the destruction of its       *)
(*     handle (CgroupManager.cpp);                                         *)
(*   - the shared BPF object, its reference count and the CgroupV2         *)
(*     handles that load and close it (CgroupManager.cpp);                 *)
(*   - the agent's shutdown on SIGINT (JobManager.cpp, StartServer);       *)
(*   - the poll callback that forwards a child's output and the stop of    *)
(*     a task's process (CforedClient.cpp);                                *)
(*   - the forwarding of a task's input to its children;                   *)
(*   - the synchronous requests answered on the Job Manager's loop;        *)
(*   - the enumeration of the BPF device map's keys (CgroupManager.cpp).   *)
(* Each part has its own specification; the variables of the other parts   *)
(* stay at their idle value.                                               *)
(***************************************************************************)
EXTENDS Integers, Sequences, FiniteSets, TLC

\* ------------------------------------------------------------------ bounds
MaxJobs == 1       \* job ids 1..MaxJobs are known to the Job Manager
MaxExec == 2       \* accepted ExecuteTaskAsync calls in one behaviour
MaxReq == 1        \* requests other than execute in one behaviour: terminate,
                   \* mark as orphaned, check status, change time limit
MaxLimitSec == 1   \* time limits are 0..MaxLimitSec seconds
TicksPerSec == 2   \* the clock is read in ticks, TicksPerSec to the second
MaxLateTicks == 1  \* ticks that may pass between two readings in one callback
MaxScanId == 2     \* job ids 1..MaxScanId may have a cgroup directory at startup
MaxInitId == 3     \* job ids 1..MaxInitId may be known to CTLD or alive at startup
MaxChunks == 2     \* chunks the child writes to its output fd
MaxInput == 1      \* TASK_INPUT replies of FANOUT
MaxDev == 3        \* device files 1..MaxDev of the node's devices
MaxCoreTenths == 3 \* a job's cpu_core_limit is 0..MaxCoreTenths tenths of a core
MaxHandles == 3    \* CgroupV2 handles created in one behaviour
MaxBpfScans == 2   \* calls of GetJobBpfMapCgroupsV2 in one behaviour
MaxBufSize == 2    \* MAX_BUF_SIZE of the poll callback (4096 in the code), in bytes
MaxPending == 3    \* bytes a child's output fd may hold unread
MaxOutChunks == 2  \* chunks the poll callback forwards in one behaviour
MaxChildren == 2   \* child pids 1..MaxChildren may be registered for input
MaxMsgSize == 2    \* a TASK_INPUT message has 0..MaxMsgSize bytes
MaxTaskInput == 2  \* TASK_INPUT messages handled in one behaviour
MaxSyncReq == 3    \* synchronous cross-loop requests in one behaviour
MaxJobKeys == 3    \* device keys of jobs 1..MaxJobKeys may be in the BPF map
MaxKeyCount == 5   \* an enumeration of the BPF map counts up to MaxKeyCount

\* The execute requests may name different jobs, or name one job again (a
\* duplicated request, or the job's next run after its instance was erased).
Jobs == 1..MaxJobs

\* ------------------------------------------------------------ Job Manager
VARIABLES
  m_task_map_,                  \* task id -> TaskInstance (partial function)
  m_grpc_execute_task_queue_,   \* instances waiting for the loop
  m_task_status_change_queue_,  \* TaskStatusChangeQueueElem
  m_task_terminate_queue_,      \* TaskTerminateQueueElem
  m_pid_task_map_,              \* pid index: set of [pid, task_id, gen]
  timers,                       \* armed termination timers: <<task_id, gen, seconds>>
  launches,                     \* LaunchTaskInstanceMt_ tasks on the pool
  children,                     \* forked children still running: [pid, task_id, gen]
  ctld_status_changes,          \* what was handed to g_ctld_client, in order (gen: of
                                \* the erased instance, kept for the properties)
  n_exec,                       \* accepted ExecuteTaskAsync calls so far
  n_term,                       \* terminate requests so far
  h_dropped,                    \* history: task ids whose status change found no instance
  h_expired,                    \* history: <<task_id, gen>> whose timer fired in the map
  h_orphaned,                   \* history: <<task_id, gen>> mark-as-orphaned drained in the map
  h_cancelled,                  \* history: <<task_id, gen>> user cancel requested after spawn
  m_check_task_status_queue_,       \* CheckTaskStatusQueueElem
  m_task_time_limit_change_queue_,  \* ChangeTaskTimeLimitQueueElem
  n_sync,                       \* synchronous requests so far
  h_check,                      \* history: what the status_prom of each request got
  h_change,                     \* history: what the ok_prom of each request got
  ctld_pending,                 \* g_ctld_client: status changes not sent to CTLD yet
  ctld_sent                     \* status changes CTLD has received, in order

\* The queues of the synchronous requests and the values their promises got.
jmSyncVars == <<m_check_task_status_queue_, m_task_time_limit_change_queue_, n_sync,
                h_check, h_change>>

\* The controller client.
ctldVars == <<ctld_pending, ctld_sent>>

jmVars == <<m_task_map_, m_grpc_execute_task_queue_, m_task_status_change_queue_,
            m_task_terminate_queue_, m_pid_task_map_, timers, launches, children,
            ctld_status_changes, n_exec, n_term,
            h_dropped, h_expired, h_orphaned, h_cancelled, jmSyncVars, ctldVars>>

\* ---------------------------------------------- fork/exec handshake state
VARIABLES
  sp_type,           \* type of the task being spawned ("none": no spawn going on)
  sp_parent,         \* parent half of SpawnProcessInInstance_: where it is
  sp_child,          \* child half: where it is
  ctrl_to_child,     \* control socket pair: CanStartMessage the child can read
  ctrl_to_parent,    \* control socket pair: ChildProcessReady the parent can read
  ctrl_fd_parent,    \* TRUE while the parent's end of the socket pair is open
  ctrl_fd_child,     \* TRUE while the child's end is open
  in_cgroup,         \* TRUE once MigrateProcIn(child_pid) has succeeded
  err_before_exec,   \* instance->err_before_exec
  h_can_start,       \* history: what the child's read of CanStart gave
  h_execv,           \* history: the child has called execv
  sp_ret,            \* what SpawnProcessInInstance_ returned ("none": not yet)
  sp_status_changes, \* status changes LaunchTaskInstanceMt_ enqueued for the spawn
  sp_pid_indexed     \* TRUE once the child pid is in m_pid_task_map_ / m_pid_proc_map_

spVars == <<sp_type, sp_parent, sp_child, ctrl_to_child, ctrl_to_parent,
            ctrl_fd_parent, ctrl_fd_child, in_cgroup, err_before_exec,
            h_can_start, h_execv, sp_ret, sp_status_changes, sp_pid_indexed>>

\* No spawn is going on.
IdleSpawn ==
  /\ sp_type = "none"
  /\ sp_parent = "idle"
  /\ sp_child = "idle"
  /\ ctrl_to_child = <<>>
  /\ ctrl_to_parent = <<>>
  /\ ctrl_fd_parent = FALSE
  /\ ctrl_fd_child = FALSE
  /\ in_cgroup = FALSE
  /\ err_before_exec = "kOk"
  /\ h_can_start = "none"
  /\ h_execv = FALSE
  /\ sp_ret = "none"
  /\ sp_status_changes = <<>>
  /\ sp_pid_indexed = FALSE

\* ------------------------------------------------ cgroup recovery scan state
VARIABLES
  cg_version_,       \* CgroupManager::cg_version_ ("UNDEFINED": no scan going on)
  cg_dirs,           \* controller root -> ids of its directories Crane_Task_<id>
  running_job_ids,   \* the surviving jobs the caller passed
  scan_pc,           \* "idle", "walk" or "done"
  scan_roots,        \* controller roots still to walk; the head is being walked
  scan_todo,         \* entries of the head root the walk has not returned yet
  scan_cur,          \* the entry the walk is at (0: an entry that is no job directory)
  h_dirs0,           \* history: cg_dirs when the scan began
  h_rm_failed        \* history: a removal failed

scanVars == <<cg_version_, cg_dirs, running_job_ids, scan_pc, scan_roots, scan_todo,
              scan_cur, h_dirs0, h_rm_failed>>

\* No recovery scan is going on.
IdleScan ==
  /\ cg_version_ = "UNDEFINED"
  /\ cg_dirs = <<>>
  /\ running_job_ids = {}
  /\ scan_pc = "idle"
  /\ scan_roots = <<>>
  /\ scan_todo = {}
  /\ scan_cur = 0
  /\ h_dirs0 = <<>>
  /\ h_rm_failed = FALSE

\* --------------------------------------------------- startup handshake state
VARIABLES
  init_pc,              \* where GlobalVariableInit is ("idle": not started)
  ctld_job_map,         \* job ids of grpc_config_req.job_map()
  job_id_pid_map,       \* job ids whose Supervisor answered g_supervisor_keeper->Init()
  task_ids_supervisor,  \* the local set the loop erases from
  job_map_todo,         \* entries of job_map() the loop has not visited yet
  running_jobs,         \* std::unordered_set running_jobs
  nonexistent_jobs,     \* std::vector nonexistent_jobs
  unrecorded_logged,    \* job ids written by CRANE_ERROR("... not recorded in Ctld")
  terminate_sent,       \* job ids whose Supervisor was sent Terminate
  recover_calls,        \* arguments of g_cg_mgr->Recover / g_job_mgr->Recover
  craned_ready_calls    \* arguments of g_ctld_client->CranedReady

initVars == <<init_pc, ctld_job_map, job_id_pid_map, task_ids_supervisor, job_map_todo,
              running_jobs, nonexistent_jobs, unrecorded_logged, terminate_sent,
              recover_calls, craned_ready_calls>>

\* GlobalVariableInit has not started.
IdleInit ==
  /\ init_pc = "idle"
  /\ ctld_job_map = {}
  /\ job_id_pid_map = {}
  /\ task_ids_supervisor = {}
  /\ job_map_todo = {}
  /\ running_jobs = {}
  /\ nonexistent_jobs = <<>>
  /\ unrecorded_logged = {}
  /\ terminate_sent = {}
  /\ recover_calls = <<>>
  /\ craned_ready_calls = <<>>

\* ----------------------------------------------------- CforedClient state
VARIABLES
  m_stopped_,        \* CforedClient::m_stopped_
  fwd_state,         \* State of AsyncSendRecvThread_ ("idle": no client)
  stream_pc,         \* AsyncSendRecvThread_: where the thread is
  write_pending,     \* std::atomic<bool> write_pending
  m_output_queue_,   \* chunks waiting for the writer thread
  writer_pc,         \* CleanOutputQueueAndWriteToStreamThread_: where the thread is
  writer_output,     \* the writer's local "output" (0: its last try_dequeue failed)
  m_cq_,             \* completion events AsyncNext can return, oldest first
  grpc_inflight,     \* operations started on the stream and not completed: the
                     \* call itself ("Prepare"), then the types of the writes
  read_outstanding,  \* TRUE while a stream->Read has not completed
  stream_broken,     \* TRUE once the connection to FANOUT has failed
  fanout_got,        \* requests FANOUT has received
  fanout_sent,       \* replies FANOUT has sent
  output_fd_open,    \* TRUE while the poll handle of the child's output fd is open
  n_read,            \* chunks read from the output fd so far (chunk k is the k-th)
  n_input,           \* TASK_INPUT replies sent by FANOUT so far
  stream_writes,     \* history: the requests given to stream->Write, in order
  h_stopped_in       \* history: the state in which ~CforedClient set the stop flag

fwdVars == <<m_stopped_, fwd_state, stream_pc, write_pending, m_output_queue_,
             writer_pc, writer_output, m_cq_, grpc_inflight, read_outstanding,
             stream_broken, fanout_got, fanout_sent, output_fd_open, n_read,
             n_input,
                 stream_writes, h_stopped_in>>

\* No I/O forwarding client exists.
IdleFwd ==
  /\ m_stopped_ = FALSE
  /\ fwd_state = "idle"
  /\ stream_pc = "idle"
  /\ write_pending = FALSE
  /\ m_output_queue_ = <<>>
  /\ writer_pc = "none"
  /\ writer_output = 0
  /\ m_cq_ = <<>>
  /\ grpc_inflight = <<>>
  /\ read_outstanding = FALSE
  /\ stream_broken = FALSE
  /\ fanout_got = {}
  /\ fanout_sent = {}
  /\ output_fd_open = FALSE
  /\ n_read = 0
  /\ n_input = 0
  /\ stream_writes = <<>>
  /\ h_stopped_in = "none"

\* ------------------------------------------------- the child's environment
VARIABLES
  env_pc,            \* where the forked child is in building its environment
  env_task,          \* the task of the instance and what the child finds around it
  task_env_map,      \* the child's local task_env_map
  res_env_map,       \* the child's local res_env_map
  environ            \* the environment of the child process

envVars == <<env_pc, env_task, task_env_map, res_env_map, environ>>

\* No child is building its environment.
IdleEnv ==
  /\ env_pc = "idle"
  /\ env_task = <<>>
  /\ task_env_map = <<>>
  /\ res_env_map = <<>>
  /\ environ = <<>>

\* ------------------------------------------------------ one job's cgroup
VARIABLES
  cg_pc,                 \* where AllocateAndGetJobCgroup / the handle's destructor is
  cg_spec,               \* the CgroupSpec and what the call finds around it
  cg_unique_ptr,         \* what CreateOrOpen_ returned ("none": not called yet)
  cg_ret,                \* what AllocateAndGetJobCgroup returned ("none": not yet)
  cg_done,               \* what was done to the cgroup: limit writes, attach, hook
  cg_failed,             \* the limit writes that failed
  cg_dir,                \* TRUE while the cgroup directory exists
  bpf_dev_map,           \* the keys <<cgroup, device>> of the BPF device map
  m_cgroup_bpf_devices,  \* CgroupV2::m_cgroup_bpf_devices (as a set of devices)
  m_bpf_attached_,       \* CgroupV2::m_bpf_attached_
  cg_cpu_max,            \* the CPU <<quota, period>> written (<<>>: none yet)
  cg_devices_deny        \* the device files written to devices.deny (V1)

cgVars == <<cg_pc, cg_spec, cg_unique_ptr, cg_ret, cg_done, cg_failed, cg_dir,
            bpf_dev_map, m_cgroup_bpf_devices, m_bpf_attached_, cg_cpu_max,
            cg_devices_deny>>

\* No cgroup is being allocated or released.
IdleCg ==
  /\ cg_pc = "idle"
  /\ cg_spec = <<>>
  /\ cg_unique_ptr = "none"
  /\ cg_ret = "none"
  /\ cg_done = {}
  /\ cg_failed = {}
  /\ cg_dir = FALSE
  /\ bpf_dev_map = {}
  /\ m_cgroup_bpf_devices = {}
  /\ m_bpf_attached_ = FALSE
  /\ cg_cpu_max = <<>>
  /\ cg_devices_deny = {}

\* ------------------------------------------------------ the BPF runtime
VARIABLES
  cgroup_count_,   \* BpfRuntimeInfo::cgroup_count_
  bpf_obj_,        \* TRUE while the BPF object is open and its program loaded
  bpf_handles,     \* CgroupV2 handles created so far: "ref" (live, its
                   \* constructor's InitializeBpfObj returned true), "noref"
                   \* (live, it returned false) or "dropped"
  bpf_scans        \* calls of GetJobBpfMapCgroupsV2 so far

bpfVars == <<cgroup_count_, bpf_obj_, bpf_handles, bpf_scans>>

\* The state BpfRuntimeInfo::BpfRuntimeInfo() leaves, and no handle.
IdleBpf ==
  /\ cgroup_count_ = 0
  /\ bpf_obj_ = FALSE
  /\ bpf_handles = <<>>
  /\ bpf_scans = 0

\* ------------------------------------------------------ the agent's shutdown
VARIABLES
  m_is_ending_now_,      \* JobManager::m_is_ending_now_
  m_uvw_loop_running,    \* TRUE until the idle handler stops m_uvw_loop_
  g_server_shutdown      \* TRUE once g_server->Shutdown() was called

endVars == <<m_is_ending_now_, m_uvw_loop_running, g_server_shutdown>>

\* The agent runs: no SIGINT yet, the loop runs, the RPC server serves.
IdleEnd ==
  /\ m_is_ending_now_ = FALSE
  /\ m_uvw_loop_running = TRUE
  /\ g_server_shutdown = FALSE

\* ------------------------------------- forwarding of one child's output
VARIABLES
  out_pty,           \* meta.pty of the child's TaskFwdMeta
  out_pending,       \* bytes the child has written that were not read yet
  out_writer_open,   \* TRUE while the child holds the other end of output_fd
  poll_active,       \* TRUE while the poll handle of output_fd is started
  out_fd_open,       \* TRUE until close(meta.output_fd)
  out_chunks,        \* the sizes of the chunks given to TaskOutPutForward, in order
  out_last,          \* what the last read() in the poll callback returned
  m_fwd_meta_map,    \* <<>> or the entry of the child's pid
  fm_registered,     \* TRUE once SetUpTaskFwd has stored the meta in the map
  proc_pc,           \* the child process: "running", "exited", "stop_called"
  h_finish_ret,      \* history: what the calls of TaskOutputFinish returned
  h_stop_ret,        \* history: what the calls of TaskProcessStop returned
  n_task_end         \* calls of TaskEnd

outVars == <<out_pty, out_pending, out_writer_open, poll_active, out_fd_open,
             out_chunks, out_last, m_fwd_meta_map, fm_registered, proc_pc,
             h_finish_ret, h_stop_ret, n_task_end>>

\* No child output is forwarded.
IdleOut ==
  /\ out_pty = FALSE
  /\ out_pending = 0
  /\ out_writer_open = FALSE
  /\ poll_active = FALSE
  /\ out_fd_open = FALSE
  /\ out_chunks = <<>>
  /\ out_last = <<>>
  /\ m_fwd_meta_map = <<>>
  /\ fm_registered = FALSE
  /\ proc_pc = "none"
  /\ h_finish_ret = <<>>
  /\ h_stop_ret = <<>>
  /\ n_task_end = 0

\* --------------------------------------- forwarding of input to children
VARIABLES
  in_registered,     \* the pids that have an entry in m_fwd_meta_map
  in_stopped,        \* the pids whose entry has input_stopped set
  in_got,            \* pid -> what was written to its input_fd: <<message, bytes>>
  in_since,          \* pid -> the number of messages handled before it registered
  in_failed,         \* pid -> the message during which a write failed (0: none)
  in_sizes,          \* the sizes of the TASK_INPUT messages handled, in order
  n_stream_read      \* stream reads issued by the Forwarding case

inVars == <<in_registered, in_stopped, in_got, in_since, in_failed, in_sizes,
            n_stream_read>>

\* No input is forwarded.
IdleIn ==
  /\ in_registered = {}
  /\ in_stopped = {}
  /\ in_got = <<>>
  /\ in_since = <<>>
  /\ in_failed = <<>>
  /\ in_sizes = <<>>
  /\ n_stream_read = 0

\* -------------------------------- synchronous requests across the loops
VARIABLES
  sync_queue,        \* kind of request -> the requests waiting in its queue
  async_pending,     \* the async handles that were sent and have not run yet
  sync_fulfilled,    \* request -> how often its promise got a value
  n_sreq             \* requests made so far (request ids are 1..n_sreq)

syncVars == <<sync_queue, async_pending, sync_fulfilled, n_sreq>>

\* No synchronous request was made.
IdleSync ==
  /\ sync_queue = <<>>
  /\ async_pending = {}
  /\ sync_fulfilled = <<>>
  /\ n_sreq = 0

\* ------------------------------------- enumeration of the BPF map's keys
VARIABLES
  key_order,         \* the keys of the device map, in the order of its iteration
  key_caller,        \* "dtor": ~CgroupManager; "scan": GetJobBpfMapCgroupsV2
  key_pc,            \* "first", "while", "done"
  pre_key,           \* *pre_key (new BpfKey(): all zero)
  bpf_map_count,     \* the local bpf_map_count
  key_results,       \* the keys given to add_task, in order
  rm_bpf_map         \* TRUE once RmBpfDeviceMap was called

keyVars == <<key_order, key_caller, key_pc, pre_key, bpf_map_count, key_results,
             rm_bpf_map>>

\* No enumeration is going on.
IdleKeys ==
  /\ key_order = <<>>
  /\ key_caller = "none"
  /\ key_pc = "idle"
  /\ pre_key = 0
  /\ bpf_map_count = 0
  /\ key_results = <<>>
  /\ rm_bpf_map = FALSE

\* The state of the parts other than the Job Manager loop.
notJM == <<spVars, scanVars, initVars, fwdVars,
           envVars, cgVars,
    bpfVars,
    endVars,
    outVars,
    inVars,
    syncVars,
    keyVars>>

JobTypes == {"Batch", "Crun", "Calloc"}

\* Every way of putting e into the concurrent queue q.  Elements of one
\* producer leave in the order they entered; between producers there is no
\* order.  The loop thread is one producer; every pool or RPC thread is
\* another.  The queue is read from the head.
Enqueued(q, e) ==
  LET lastLoop == IF \E i \in 1..Len(q) : q[i].by = "loop"
                  THEN CHOOSE i \in 1..Len(q) :
                         /\ q[i].by = "loop"
                         /\ \A k \in (i+1)..Len(q) : q[k].by # "loop"
                  ELSE 0
      from == IF e.by = "loop" THEN lastLoop + 1 ELSE 1
  IN { SubSeq(q, 1, i - 1) \o <<e>> \o SubSeq(q, i, Len(q)) : i \in from..(Len(q) + 1) }

TaskStatusChangeQueueElem(task_id, new_status, exit_code, by) ==
  [task_id |-> task_id, new_status |-> new_status, exit_code |-> exit_code, by |-> by]

\* ActivateTaskStatusChangeAsync_: enqueue and wake the loop.
ActivateTaskStatusChangeAsync_(task_id, new_status, exit_code, by) ==
  m_task_status_change_queue_' \in
    Enqueued(m_task_status_change_queue_,
             TaskStatusChangeQueueElem(task_id, new_status, exit_code, by))

\* The Job Manager right after its construction.
IdleJM ==
  /\ m_task_map_ = <<>>
  /\ m_grpc_execute_task_queue_ = <<>>
  /\ m_task_status_change_queue_ = <<>>
  /\ m_task_terminate_queue_ = <<>>
  /\ m_pid_task_map_ = {}
  /\ timers = {}
  /\ launches = {}
  /\ children = {}
  /\ ctld_status_changes = <<>>
  /\ n_exec = 0
  /\ n_term = 0
  /\ h_dropped = {}
  /\ h_expired = {}
  /\ h_orphaned = {}
  /\ h_cancelled = {}
  /\ m_check_task_status_queue_ = <<>>
  /\ m_task_time_limit_change_queue_ = <<>>
  /\ n_sync = 0
  /\ h_check = <<>>
  /\ h_change = <<>>
  /\ ctld_pending = <<>>
  /\ ctld_sent = <<>>

InitJM ==
  /\ IdleJM
  /\ IdleSpawn
  /\ IdleScan
  /\ IdleInit
  /\ IdleFwd
  /\ IdleEnv
  /\ IdleCg
  /\ IdleOut
  /\ IdleIn
  /\ IdleSync
  /\ IdleKeys
  /\ IdleEnd
  /\ IdleBpf

\* ExecuteTaskAsync (RPC thread).  Without an allocated cgroup the request is
\* refused; otherwise the instance is queued for the loop.  uid_valid: the
\* password database has an entry for task.uid().
ExecuteTaskAsync ==
  /\ n_exec < MaxExec
  /\ \E task_id \in Jobs, type \in JobTypes, uid_valid \in BOOLEAN,
        cg_exists \in BOOLEAN :
       IF ~cg_exists
       THEN UNCHANGED <<m_grpc_execute_task_queue_, n_exec>>
       ELSE /\ n_exec' = n_exec + 1
            /\ m_grpc_execute_task_queue_' \in
                 Enqueued(m_grpc_execute_task_queue_,
                          [task_id |-> task_id, gen |-> n_exec + 1, type |-> type,
                           uid_valid |-> uid_valid, by |-> "rpc"])
  /\ UNCHANGED <<m_task_map_, m_task_status_change_queue_, m_task_terminate_queue_,
                 m_pid_task_map_, timers, launches, children, ctld_status_changes,
                 n_term, h_dropped, h_expired, h_orphaned, h_cancelled>>
  /\ UNCHANGED <<jmSyncVars, ctldVars>>
  /\ UNCHANGED notJM

\* AddTerminationTimer_(instance, secs): a timer of secs seconds is armed
\* for the instance.
AddTerminationTimer_(ts, task_id, gen, secs) == ts \cup {<<task_id, gen, secs>>}

\* DelTerminationTimer_(instance): the timer of the instance is disarmed.
DelTerminationTimer_(ts, task_id, gen) ==
  {t \in ts : ~(t[1] = task_id /\ t[2] = gen)}

\* task.time_limit().seconds() of the tasks that are executed.
TimeLimitSec == MaxLimitSec

\* Mutant of ExecuteOne: a duplicated task id is not ignored.
ExecuteOne_NoDupCheck(st, e) ==
  [map      |-> (e.task_id :> [gen |-> e.gen, type |-> e.type, orphaned |-> FALSE])
                  @@ st.map,
   timers   |-> AddTerminationTimer_(st.timers, e.task_id, e.gen, TimeLimitSec),
   launches |-> st.launches \cup
                  {[task_id |-> e.task_id, gen |-> e.gen, type |-> e.type,
                    uid_valid |-> e.uid_valid, pc |-> "start"]}]

\* EvCleanGrpcExecuteTaskQueueCb_, one popped instance: emplace it (a
\* duplicated task id is ignored), arm its timer, detach its launch.
ExecuteOne(st, e) ==
  IF e.task_id \in DOMAIN st.map
  THEN st
  ELSE [map      |-> (e.task_id :> [gen |-> e.gen, type |-> e.type, orphaned |-> FALSE])
                     @@ st.map,
        timers   |-> AddTerminationTimer_(st.timers, e.task_id, e.gen, TimeLimitSec),
        launches |-> st.launches \cup
                       {[task_id |-> e.task_id, gen |-> e.gen, type |-> e.type,
                         uid_valid |-> e.uid_valid, pc |-> "start"]}]

RECURSIVE ExecuteDrain(_, _)
ExecuteDrain(st, q) ==
  IF q = <<>> THEN st ELSE ExecuteDrain(ExecuteOne(st, Head(q)), Tail(q))

EvCleanGrpcExecuteTaskQueueCb_ ==
  /\ m_grpc_execute_task_queue_ # <<>>
  /\ LET st == ExecuteDrain([map |-> m_task_map_, timers |-> timers,
                             launches |-> launches],
                            m_grpc_execute_task_queue_)
     IN /\ m_task_map_' = st.map
        /\ timers' = st.timers
        /\ launches' = st.launches
  /\ m_grpc_execute_task_queue_' = <<>>
  /\ UNCHANGED <<m_task_status_change_queue_, m_task_terminate_queue_, m_pid_task_map_,
                 children, ctld_status_changes, n_exec, n_term,
                 h_dropped, h_expired, h_orphaned, h_cancelled>>
  /\ UNCHANGED <<jmSyncVars, ctldVars>>
  /\ UNCHANGED notJM

\* The launch holds a raw pointer to its instance; it dangles once the
\* instance was erased from the task map.
Dangling(l) ==
  ~(l.task_id \in DOMAIN m_task_map_ /\ m_task_map_[l.task_id].gen = l.gen)

\* What a launch may find: the job's cgroup exists, the cgroup can be
\* allocated, the script file can be written, SpawnProcessInInstance_ forks.
LaunchEnvs ==
  [cg_exists : BOOLEAN, alloc_ok : BOOLEAN, script_ok : BOOLEAN, spawn_ok : BOOLEAN]

\* Mutant of LaunchOutcome: the password entry is not looked up.
LaunchOutcome_NoPwdCheck(type, uid_valid, env) ==
  IF ~env.cg_exists THEN "no_cgroup"
  ELSE IF ~env.alloc_ok THEN "alloc_failed"
  ELSE IF type = "Calloc" THEN "calloc_return"
  ELSE IF ~env.script_ok THEN "script_failed"
  ELSE IF ~env.spawn_ok THEN "spawn_failed"
  ELSE "forked"

\* The checks of LaunchTaskInstanceMt_, in their order.
LaunchOutcome(type, uid_valid, env) ==
  IF ~env.cg_exists THEN "no_cgroup"
  ELSE IF ~uid_valid THEN "no_pwd_entry"
  ELSE IF ~env.alloc_ok THEN "alloc_failed"
  ELSE IF type = "Calloc" THEN "calloc_return"
  ELSE IF ~env.script_ok THEN "script_failed"
  ELSE IF ~env.spawn_ok THEN "spawn_failed"
  ELSE "forked"

LaunchExitCode(outcome) ==
  CASE outcome = "no_cgroup"     -> "kExitCodeCgroupError"
    [] outcome = "no_pwd_entry"  -> "kExitCodePermissionDenied"
    [] outcome = "alloc_failed"  -> "kExitCodeCgroupError"
    [] outcome = "script_failed" -> "kExitCodeFileNotFound"
    [] outcome = "spawn_failed"  -> "kExitCodeSpawnProcessFail"

\* LaunchTaskInstanceMt_ up to the return of SpawnProcessInInstance_ (pool
\* thread).  Every failure before a successful fork enqueues one Failed status
\* change.  The task id is read through the instance pointer: any value when
\* the pointer dangles.
LaunchTaskInstanceMt_ ==
  \E l \in launches :
    /\ l.pc = "start"
    /\ \E env \in LaunchEnvs,
          task_id \in (IF Dangling(l) THEN Jobs ELSE {l.task_id}) :
         LET outcome == LaunchOutcome(l.type, l.uid_valid, env) IN
         CASE outcome = "calloc_return" ->
                /\ launches' = launches \ {l}
                /\ UNCHANGED <<m_task_status_change_queue_, children>>
           [] outcome = "forked" ->
                /\ launches' = (launches \ {l}) \cup {[l EXCEPT !.pc = "forked"]}
                /\ children' = children \cup
                                 {[pid |-> l.gen, task_id |-> task_id, gen |-> l.gen]}
                /\ UNCHANGED m_task_status_change_queue_
           [] OTHER ->
                /\ launches' = launches \ {l}
                /\ ActivateTaskStatusChangeAsync_(task_id, "Failed",
                                                  LaunchExitCode(outcome), "pool")
                /\ UNCHANGED children
    /\ UNCHANGED <<m_task_map_, m_grpc_execute_task_queue_, m_task_terminate_queue_,
                   m_pid_task_map_, timers, ctld_status_changes, n_exec, n_term,
                   h_dropped, h_expired, h_orphaned, h_cancelled>>
    /\ UNCHANGED <<jmSyncVars, ctldVars>>
    /\ UNCHANGED notJM

\* LaunchTaskInstanceMt_, kOk branch: the child pid goes into the pid index.
LaunchRegisterPid ==
  \E l \in launches :
    /\ l.pc = "forked"
    /\ launches' = launches \ {l}
    /\ m_pid_task_map_' = m_pid_task_map_ \cup
                            {[pid |-> l.gen, task_id |-> l.task_id, gen |-> l.gen]}
    /\ UNCHANGED <<m_task_map_, m_grpc_execute_task_queue_, m_task_status_change_queue_,
                   m_task_terminate_queue_, timers, children, ctld_status_changes,
                   n_exec, n_term, h_dropped, h_expired, h_orphaned,
                   h_cancelled>>
    /\ UNCHANGED <<jmSyncVars, ctldVars>>
    /\ UNCHANGED notJM

\* The Supervisor reports the end of the job's child: one status change.
TaskStopAndDoStatusChangeAsync ==
  \E c \in children, res \in {<<"Completed", "kExitCodeOk">>, <<"Failed", "kExitCodeFailed">>} :
    /\ children' = children \ {c}
    /\ ActivateTaskStatusChangeAsync_(c.task_id, res[1], res[2], "rpc")
    /\ UNCHANGED <<m_task_map_, m_grpc_execute_task_queue_, m_task_terminate_queue_,
                   m_pid_task_map_, timers, launches, ctld_status_changes, n_exec,
                   n_term, h_dropped, h_expired, h_orphaned, h_cancelled>>
    /\ UNCHANGED <<jmSyncVars, ctldVars>>
    /\ UNCHANGED notJM

\* EvTaskTimerCb_(task_id): a timer fires.  An erased task is left alone; a
\* Batch task gets a terminate request, any other task the status change
\* ExceedTimeLimit.
EvTaskTimerCb_ ==
  \E t \in timers :
    LET task_id == t[1] IN
    IF task_id \notin DOMAIN m_task_map_
    THEN /\ timers' = timers \ {t}
         /\ UNCHANGED <<m_task_terminate_queue_, m_task_status_change_queue_, h_expired>>
    ELSE LET inst == m_task_map_[task_id] IN
         /\ timers' = DelTerminationTimer_(timers \ {t}, task_id, inst.gen)
         /\ h_expired' = h_expired \cup {<<task_id, inst.gen>>}
         /\ IF inst.type = "Batch"
            THEN /\ m_task_terminate_queue_' =
                      Append(m_task_terminate_queue_,
                             [task_id |-> task_id, terminated_by_user |-> FALSE,
                              mark_as_orphaned |-> FALSE, terminated_by_timeout |-> TRUE])
                 /\ UNCHANGED m_task_status_change_queue_
            ELSE /\ ActivateTaskStatusChangeAsync_(task_id, "ExceedTimeLimit",
                                                   "kExitCodeExceedTimeLimit", "loop")
                 /\ UNCHANGED m_task_terminate_queue_
  /\ UNCHANGED <<m_task_map_, m_grpc_execute_task_queue_, m_pid_task_map_, launches,
                 children, ctld_status_changes, n_exec, n_term, h_dropped,
                 h_orphaned, h_cancelled>>
  /\ UNCHANGED <<jmSyncVars, ctldVars>>
  /\ UNCHANGED notJM

Spawned(task_id, gen) ==
  \E c \in children \cup m_pid_task_map_ : c.task_id = task_id /\ c.gen = gen

\* TerminateTaskAsync(task_id): a user cancel (RPC thread).
TerminateTaskAsync ==
  /\ n_term + n_sync < MaxReq
  /\ n_term' = n_term + 1
  /\ \E task_id \in Jobs :
       /\ m_task_terminate_queue_' =
            Append(m_task_terminate_queue_,
                   [task_id |-> task_id, terminated_by_user |-> TRUE,
                    mark_as_orphaned |-> FALSE, terminated_by_timeout |-> FALSE])
       /\ h_cancelled' =
            IF task_id \in DOMAIN m_task_map_ /\ Spawned(task_id, m_task_map_[task_id].gen)
            THEN h_cancelled \cup {<<task_id, m_task_map_[task_id].gen>>}
            ELSE h_cancelled
  /\ UNCHANGED <<m_task_map_, m_grpc_execute_task_queue_, m_task_status_change_queue_,
                 m_pid_task_map_, timers, launches, children, ctld_status_changes,
                 n_exec, h_dropped, h_expired, h_orphaned>>
  /\ UNCHANGED <<jmSyncVars, ctldVars>>
  /\ UNCHANGED notJM

\* MarkTaskAsOrphanedAndTerminateAsync(task_id) (RPC thread).
MarkTaskAsOrphanedAndTerminateAsync ==
  /\ n_term + n_sync < MaxReq
  /\ n_term' = n_term + 1
  /\ \E task_id \in Jobs :
       m_task_terminate_queue_' =
         Append(m_task_terminate_queue_,
                [task_id |-> task_id, terminated_by_user |-> FALSE,
                 mark_as_orphaned |-> TRUE, terminated_by_timeout |-> FALSE])
  /\ UNCHANGED <<m_task_map_, m_grpc_execute_task_queue_, m_task_status_change_queue_,
                 m_pid_task_map_, timers, launches, children, ctld_status_changes,
                 n_exec, h_dropped, h_expired, h_orphaned, h_cancelled>>
  /\ UNCHANGED <<jmSyncVars, ctldVars>>
  /\ UNCHANGED notJM

\* The instances a drained terminate queue addressed, by kind of request.
Addressed(q, kind) ==
  { <<q[i].task_id, m_task_map_[q[i].task_id].gen>> :
      i \in { k \in 1..Len(q) : q[k][kind] /\ q[k].task_id \in DOMAIN m_task_map_ } }

\* EvCleanTerminateTaskQueueCb_: every element is popped and nothing is done
\* with it (no signal, no orphaned mark, no status change).
EvCleanTerminateTaskQueueCb_ ==
  /\ m_task_terminate_queue_ # <<>>
  /\ m_task_terminate_queue_' = <<>>
  /\ h_orphaned' = h_orphaned \cup Addressed(m_task_terminate_queue_, "mark_as_orphaned")
  /\ UNCHANGED <<m_task_map_, m_grpc_execute_task_queue_, m_task_status_change_queue_,
                 m_pid_task_map_, timers, launches, children, ctld_status_changes,
                 n_exec, n_term, h_dropped, h_expired, h_cancelled>>
  /\ UNCHANGED <<jmSyncVars, ctldVars>>
  /\ UNCHANGED notJM

\* Mutant of TimerOfErased: the timer of an erased instance stays armed.
TimerOfErased_Kept(ts, task_id, gen) == ts

\* The destruction of an erased instance takes its timer with it.
TimerOfErased(ts, task_id, gen) == DelTerminationTimer_(ts, task_id, gen)

\* Mutant of StatusChangeOne: the instance is not erased.
StatusChangeOne_NoErase(st, sc) ==
  IF sc.task_id \notin DOMAIN st.map
  THEN [st EXCEPT !.dropped = @ \cup {sc.task_id}]
  ELSE [st EXCEPT !.ctld = Append(@, [task_id |-> sc.task_id,
                                      gen |-> st.map[sc.task_id].gen,
                                      new_status |-> sc.new_status,
                                      exit_code |-> sc.exit_code])]

\* EvCleanTaskStatusChangeQueueCb_, one popped status change: a task id that
\* is not in the map is skipped; otherwise the instance is erased and, unless
\* it is orphaned, the status change goes to the controller client.
StatusChangeOne(st, sc) ==
  IF sc.task_id \notin DOMAIN st.map
  THEN [st EXCEPT !.dropped = @ \cup {sc.task_id}]
  ELSE LET inst == st.map[sc.task_id] IN
       [map     |-> [k \in DOMAIN st.map \ {sc.task_id} |-> st.map[k]],
        timers  |-> TimerOfErased(st.timers, sc.task_id, inst.gen),
        ctld    |-> IF inst.orphaned THEN st.ctld
                    ELSE Append(st.ctld, [task_id |-> sc.task_id, gen |-> inst.gen,
                                          new_status |-> sc.new_status,
                                          exit_code |-> sc.exit_code]),
        dropped |-> st.dropped]

RECURSIVE StatusChangeDrain(_, _)
StatusChangeDrain(st, q) ==
  IF q = <<>> THEN st ELSE StatusChangeDrain(StatusChangeOne(st, Head(q)), Tail(q))

EvCleanTaskStatusChangeQueueCb_ ==
  /\ m_task_status_change_queue_ # <<>>
  /\ LET st == StatusChangeDrain([map |-> m_task_map_, timers |-> timers,
                                  ctld |-> ctld_status_changes, dropped |-> h_dropped],
                                 m_task_status_change_queue_)
     IN /\ m_task_map_' = st.map
        /\ timers' = st.timers
        /\ ctld_status_changes' = st.ctld
        /\ ctld_pending' = ctld_pending \o
                              SubSeq(st.ctld, Len(ctld_status_changes) + 1, Len(st.ctld))
        /\ h_dropped' = st.dropped
  /\ m_task_status_change_queue_' = <<>>
  /\ UNCHANGED <<m_grpc_execute_task_queue_, m_task_terminate_queue_, m_pid_task_map_,
                 launches, children, n_exec, n_term, h_expired, h_orphaned, h_cancelled>>
  /\ UNCHANGED <<jmSyncVars, ctld_sent>>
  /\ UNCHANGED notJM

\* The worker of the controller client sends the oldest status change to
\* CTLD.
CtldSendStatusChange ==
  /\ ctld_pending # <<>>
  /\ ctld_sent' = Append(ctld_sent, Head(ctld_pending))
  /\ ctld_pending' = Tail(ctld_pending)
  /\ UNCHANGED <<m_task_map_, m_grpc_execute_task_queue_, m_task_status_change_queue_,
                 m_task_terminate_queue_, m_pid_task_map_, timers, launches, children,
                 ctld_status_changes, n_exec, n_term, h_dropped, h_expired,
                 h_orphaned, h_cancelled, jmSyncVars>>
  /\ UNCHANGED notJM

\* CheckTaskStatusAsync(task_id) (RPC thread): the request is queued, the
\* caller waits for the promise.
CheckTaskStatusAsync ==
  /\ n_term + n_sync < MaxReq
  /\ n_sync' = n_sync + 1
  /\ \E task_id \in Jobs :
       m_check_task_status_queue_' \in
         Enqueued(m_check_task_status_queue_, [task_id |-> task_id, by |-> "rpc"])
  /\ UNCHANGED <<m_task_map_, m_grpc_execute_task_queue_, m_task_status_change_queue_,
                 m_task_terminate_queue_, m_pid_task_map_, timers, launches, children,
                 ctld_status_changes, n_exec, n_term, h_dropped, h_expired,
                 h_orphaned, h_cancelled, m_task_time_limit_change_queue_, h_check,
                 h_change, ctldVars>>
  /\ UNCHANGED notJM

\* The positions of the status changes of task_id in the client's queue.
PendingOf(q, task_id) == {i \in 1..Len(q) : q[i].task_id = task_id}

\* The oldest one of them (0: none).
OldestPendingOf(q, task_id) ==
  IF PendingOf(q, task_id) = {} THEN 0
  ELSE CHOOSE i \in PendingOf(q, task_id) : \A k \in PendingOf(q, task_id) : i <= k

\* g_ctld_client->CancelTaskStatusChangeByTaskId: a queued status change of
\* the task is withdrawn.
CancelTaskStatusChangeByTaskId(q, task_id) ==
  LET i == OldestPendingOf(q, task_id)
  IN IF i = 0 THEN q ELSE SubSeq(q, 1, i - 1) \o SubSeq(q, i + 1, Len(q))

\* Mutant of CheckOne: the task map is not consulted.
CheckOne_NoMapLookup(st, elem) ==
  LET i == OldestPendingOf(st.pending, elem.task_id) IN
  IF i # 0
  THEN [pending |-> CancelTaskStatusChangeByTaskId(st.pending, elem.task_id),
        check   |-> Append(st.check, [task_id |-> elem.task_id, ok |-> TRUE,
                                      status |-> st.pending[i].new_status,
                                      withdrawn |-> <<st.pending[i]>>])]
  ELSE [st EXCEPT !.check = Append(@, [task_id |-> elem.task_id, ok |-> FALSE,
                                       status |-> "Pending", withdrawn |-> <<>>])]

\* EvCleanCheckTaskStatusQueueCb_, one popped request: Running for a task in
\* the map; otherwise the status of the status change withdrawn from the
\* controller client; otherwise not ok.
CheckOne(st, elem) ==
  LET i == OldestPendingOf(st.pending, elem.task_id) IN
  IF elem.task_id \in DOMAIN m_task_map_
  THEN [st EXCEPT !.check = Append(@, [task_id |-> elem.task_id, ok |-> TRUE,
                                       status |-> "Running", withdrawn |-> <<>>])]
  ELSE IF i # 0
  THEN [pending |-> CancelTaskStatusChangeByTaskId(st.pending, elem.task_id),
        check   |-> Append(st.check, [task_id |-> elem.task_id, ok |-> TRUE,
                                      status |-> st.pending[i].new_status,
                                      withdrawn |-> <<st.pending[i]>>])]
  ELSE [st EXCEPT !.check = Append(@, [task_id |-> elem.task_id, ok |-> FALSE,
                                       status |-> "Pending", withdrawn |-> <<>>])]

RECURSIVE CheckDrain(_, _)
CheckDrain(st, q) ==
  IF q = <<>> THEN st ELSE CheckDrain(CheckOne(st, Head(q)), Tail(q))

EvCleanCheckTaskStatusQueueCb_ ==
  /\ m_check_task_status_queue_ # <<>>
  /\ LET st == CheckDrain([pending |-> ctld_pending, check |-> h_check],
                          m_check_task_status_queue_)
     IN /\ ctld_pending' = st.pending
        /\ h_check' = st.check
  /\ m_check_task_status_queue_' = <<>>
  /\ UNCHANGED <<m_task_map_, m_grpc_execute_task_queue_, m_task_status_change_queue_,
                 m_task_terminate_queue_, m_pid_task_map_, timers, launches, children,
                 ctld_status_changes, n_exec, n_term, h_dropped, h_expired,
                 h_orphaned, h_cancelled, m_task_time_limit_change_queue_, n_sync,
                 h_change, ctld_sent>>
  /\ UNCHANGED notJM

\* ChangeTaskTimeLimitAsync(task_id, time_limit) (RPC thread): the request
\* is queued, the caller waits for the promise.
ChangeTaskTimeLimitAsync ==
  /\ n_term + n_sync < MaxReq
  /\ n_sync' = n_sync + 1
  /\ \E task_id \in Jobs, time_limit \in 0..MaxLimitSec :
       m_task_time_limit_change_queue_' \in
         Enqueued(m_task_time_limit_change_queue_,
                  [task_id |-> task_id, time_limit |-> time_limit, by |-> "rpc"])
  /\ UNCHANGED <<m_task_map_, m_grpc_execute_task_queue_, m_task_status_change_queue_,
                 m_task_terminate_queue_, m_pid_task_map_, timers, launches, children,
                 ctld_status_changes, n_exec, n_term, h_dropped, h_expired,
                 h_orphaned, h_cancelled, m_check_task_status_queue_, h_check,
                 h_change, ctldVars>>
  /\ UNCHANGED notJM

\* absl::ToInt64Seconds of a duration of d ticks: the fraction is dropped.
ToInt64Seconds(d) ==
  IF d >= 0 THEN d \div TicksPerSec ELSE -((-d) \div TicksPerSec)

\* Mutant of ChangeOne: the current timer is not disarmed.
ChangeOne_NoDel(st, elem, elapsed, late) ==
  IF elem.task_id \in DOMAIN m_task_map_
  THEN LET gen == m_task_map_[elem.task_id].gen
           new_time_limit == elem.time_limit * TicksPerSec
           res == [task_id |-> elem.task_id, time_limit |-> elem.time_limit,
                   elapsed |-> elapsed[elem.task_id], ok |-> TRUE]
       IN IF elapsed[elem.task_id] >= new_time_limit
          THEN [timers |-> st.timers,
                term   |-> Append(st.term,
                                  [task_id |-> elem.task_id, terminated_by_user |-> FALSE,
                                   mark_as_orphaned |-> FALSE,
                                   terminated_by_timeout |-> TRUE]),
                change |-> Append(st.change, res)]
          ELSE [timers |-> AddTerminationTimer_(
                             st.timers, elem.task_id, gen,
                             ToInt64Seconds(new_time_limit
                                            - (elapsed[elem.task_id] + late))),
                term   |-> st.term,
                change |-> Append(st.change, res)]
  ELSE [st EXCEPT !.change = Append(@, [task_id |-> elem.task_id,
                                        time_limit |-> elem.time_limit,
                                        elapsed |-> 0, ok |-> FALSE])]

\* EvCleanChangeTaskTimeLimitQueueCb_, one popped request.  elapsed[id] is
\* now - start_time of task id, with now read at the start of the callback;
\* late is what the clock has advanced when it is read again for the timer.
ChangeOne(st, elem, elapsed, late) ==
  IF elem.task_id \in DOMAIN m_task_map_
  THEN LET gen == m_task_map_[elem.task_id].gen
           ts == DelTerminationTimer_(st.timers, elem.task_id, gen)
           new_time_limit == elem.time_limit * TicksPerSec
           res == [task_id |-> elem.task_id, time_limit |-> elem.time_limit,
                   elapsed |-> elapsed[elem.task_id], ok |-> TRUE]
       IN IF elapsed[elem.task_id] >= new_time_limit
          THEN [timers |-> ts,
                term   |-> Append(st.term,
                                  [task_id |-> elem.task_id, terminated_by_user |-> FALSE,
                                   mark_as_orphaned |-> FALSE,
                                   terminated_by_timeout |-> TRUE]),
                change |-> Append(st.change, res)]
          ELSE [timers |-> AddTerminationTimer_(
                             ts, elem.task_id, gen,
                             ToInt64Seconds(new_time_limit
                                            - (elapsed[elem.task_id] + late))),
                term   |-> st.term,
                change |-> Append(st.change, res)]
  ELSE [st EXCEPT !.change = Append(@, [task_id |-> elem.task_id,
                                        time_limit |-> elem.time_limit,
                                        elapsed |-> 0, ok |-> FALSE])]

RECURSIVE ChangeDrain(_, _, _, _)
ChangeDrain(st, q, elapsed, late) ==
  IF q = <<>> THEN st
  ELSE ChangeDrain(ChangeOne(st, Head(q), elapsed, late), Tail(q), elapsed, late)

EvCleanChangeTaskTimeLimitQueueCb_ ==
  /\ m_task_time_limit_change_queue_ # <<>>
  /\ \E elapsed \in [Jobs -> 0..(MaxLimitSec * TicksPerSec)], late \in 0..MaxLateTicks :
       LET st == ChangeDrain([timers |-> timers, term |-> m_task_terminate_queue_,
                              change |-> h_change],
                             m_task_time_limit_change_queue_, elapsed, late)
       IN /\ timers' = st.timers
          /\ m_task_terminate_queue_' = st.term
          /\ h_change' = st.change
  /\ m_task_time_limit_change_queue_' = <<>>
  /\ UNCHANGED <<m_task_map_, m_grpc_execute_task_queue_, m_task_status_change_queue_,
                 m_pid_task_map_, launches, children, ctld_status_changes, n_exec,
                 n_term, h_dropped, h_expired, h_orphaned, h_cancelled,
                 m_check_task_status_queue_, n_sync, h_check, ctldVars>>
  /\ UNCHANGED notJM

NextJM ==
  \/ ExecuteTaskAsync
  \/ EvCleanGrpcExecuteTaskQueueCb_
  \/ LaunchTaskInstanceMt_
  \/ LaunchRegisterPid
  \/ TaskStopAndDoStatusChangeAsync
  \/ EvTaskTimerCb_
  \/ TerminateTaskAsync
  \/ MarkTaskAsOrphanedAndTerminateAsync
  \/ EvCleanTerminateTaskQueueCb_
  \/ EvCleanTaskStatusChangeQueueCb_
  \/ CtldSendStatusChange
  \/ CheckTaskStatusAsync
  \/ EvCleanCheckTaskStatusQueueCb_
  \/ ChangeTaskTimeLimitAsync
  \/ EvCleanChangeTaskTimeLimitQueueCb_

\* ------------------------------------------------------ fork/exec handshake
\* SpawnProcessInInstance_ in the parent and in the forked child, and what
\* LaunchTaskInstanceMt_ does with its return value.
notSpawn == <<jmVars, scanVars, initVars, fwdVars,
              envVars, cgVars,
    bpfVars,
    endVars,
    outVars,
    inVars,
    syncVars,
    keyVars>>

SpawnTypes == {"Batch", "Crun"}

InitSpawn ==
  /\ sp_type \in SpawnTypes
  /\ sp_parent = "GetTaskResourceInNode"
  /\ sp_child = "idle"
  /\ ctrl_to_child = <<>>
  /\ ctrl_to_parent = <<>>
  /\ ctrl_fd_parent = FALSE
  /\ ctrl_fd_child = FALSE
  /\ in_cgroup = FALSE
  /\ err_before_exec = "kOk"
  /\ h_can_start = "none"
  /\ h_execv = FALSE
  /\ sp_ret = "none"
  /\ sp_status_changes = <<>>
  /\ sp_pid_indexed = FALSE
  /\ IdleJM
  /\ IdleScan
  /\ IdleInit
  /\ IdleFwd
  /\ IdleEnv
  /\ IdleCg
  /\ IdleOut
  /\ IdleIn
  /\ IdleSync
  /\ IdleKeys
  /\ IdleEnd
  /\ IdleBpf

\* Mutant of ReturnAfterFork: the error met after the fork is returned.
ReturnAfterFork_Err(err) == err

\* Every return of the parent branch, after a successful fork, is kOk,
\* whatever was stored in err_before_exec.
ReturnAfterFork(err) == "kOk"

\* What can stop SpawnProcessInInstance_ before the child exists, in the order
\* of the code, and the value it returns then.
ErrorsBeforeFork(type) ==
  {"no_resource", "socketpair_failed", "fork_failed"}
    \cup (IF type = "Crun" THEN {"crun_socketpair_failed"} ELSE {})

ReturnBeforeFork(error) ==
  IF error = "no_resource" THEN "kCgroupError" ELSE "kSystemErr"

\* Parent: GetTaskResourceInNode, socketpair, (Crun without pty: the second
\* socketpair,) fork or forkpty.  On a failure the function returns at once
\* and there is no child.
ParentFork ==
  /\ sp_parent = "GetTaskResourceInNode"
  /\ \E outcome \in ErrorsBeforeFork(sp_type) \cup {"forked"} :
       IF outcome = "forked"
       THEN /\ sp_parent' = "MigrateProcIn"
            /\ sp_child' = "setgroups"
            /\ ctrl_fd_parent' = TRUE
            /\ ctrl_fd_child' = TRUE
            /\ UNCHANGED sp_ret
       ELSE /\ sp_parent' = "returned"
            /\ sp_ret' = ReturnBeforeFork(outcome)
            /\ UNCHANGED <<sp_child, ctrl_fd_parent, ctrl_fd_child>>
  /\ UNCHANGED <<sp_type, ctrl_to_child, ctrl_to_parent, in_cgroup, err_before_exec,
                 h_can_start, h_execv, sp_status_changes, sp_pid_indexed>>
  /\ UNCHANGED notSpawn

\* LaunchTaskInstanceMt_ after SpawnProcessInInstance_ has returned: a value
\* other than kOk enqueues one Failed status change, kOk puts the child pid
\* into the pid index maps.
LaunchAfterSpawn ==
  /\ sp_parent = "returned"
  /\ sp_parent' = "launched"
  /\ IF sp_ret # "kOk"
     THEN /\ sp_status_changes' =
               Append(sp_status_changes,
                      [new_status |-> "Failed",
                       exit_code |-> "kExitCodeSpawnProcessFail"])
          /\ UNCHANGED sp_pid_indexed
     ELSE /\ sp_pid_indexed' = TRUE
          /\ UNCHANGED sp_status_changes
  /\ UNCHANGED <<sp_type, sp_child, ctrl_to_child, ctrl_to_parent, ctrl_fd_parent,
                 ctrl_fd_child, in_cgroup, err_before_exec, h_can_start, h_execv,
                 sp_ret>>
  /\ UNCHANGED notSpawn

ChildEnded(pc) == pc \in {"aborted", "killed"}

\* The child is the leader of its own process group once setpgid(0, 0) ran.
ChildHasOwnGroup(pc) ==
  pc \in {"read_can_start", "setup_io", "send_ready", "execv", "running"}

\* KillProcessInstance_(process, SIGKILL): kill(-pid, SIGKILL) reaches the
\* child only if the process group of that id exists.
KillProcessInstance_(pc) ==
  IF ChildHasOwnGroup(pc) THEN "killed" ELSE pc

\* Parent: migrate the child into the job's cgroup.
ParentMigrateProcIn ==
  /\ sp_parent = "MigrateProcIn"
  /\ \E ok \in BOOLEAN :
       IF ok
       THEN /\ in_cgroup' = TRUE
            /\ sp_parent' = "send_can_start"
            /\ UNCHANGED err_before_exec
       ELSE /\ err_before_exec' = "kCgroupError"
            /\ sp_parent' = "AskChildToSuicide"
            /\ UNCHANGED in_cgroup
  /\ UNCHANGED <<sp_type, sp_child, ctrl_to_child, ctrl_to_parent, ctrl_fd_parent,
                 ctrl_fd_child, h_can_start, h_execv>>
  /\ UNCHANGED <<sp_ret, sp_status_changes, sp_pid_indexed>>
  /\ UNCHANGED notSpawn

\* Parent: send CanStart{ok = true}.  The write fails when the child's end is
\* closed, and may fail otherwise; after a failed write the child is killed.
ParentSendCanStart ==
  /\ sp_parent = "send_can_start"
  /\ \E ok \in (IF ctrl_fd_child THEN BOOLEAN ELSE {FALSE}) :
       IF ok
       THEN /\ ctrl_to_child' = Append(ctrl_to_child, [ok |-> TRUE])
            /\ sp_parent' = "read_child_ready"
            /\ UNCHANGED <<ctrl_fd_parent, err_before_exec, sp_child, ctrl_fd_child>>
       ELSE /\ ctrl_fd_parent' = FALSE
            /\ err_before_exec' = "kProtobufError"
            /\ sp_child' = KillProcessInstance_(sp_child)
            /\ ctrl_fd_child' = (ctrl_fd_child /\ ~ChildHasOwnGroup(sp_child))
            /\ sp_parent' = "returned"
            /\ UNCHANGED ctrl_to_child
  /\ UNCHANGED <<sp_type, ctrl_to_parent, in_cgroup, h_can_start, h_execv>>
  /\ sp_ret' = IF sp_parent' = "returned" THEN ReturnAfterFork(err_before_exec')
                                         ELSE sp_ret
  /\ UNCHANGED <<sp_status_changes, sp_pid_indexed>>
  /\ UNCHANGED notSpawn

\* Parent: wait for ChildProcessReady.  The read blocks until the message is
\* there or the child's end is closed.
ParentReadChildReady ==
  /\ sp_parent = "read_child_ready"
  /\ \/ /\ ctrl_to_parent # <<>>
        /\ ctrl_to_parent' = Tail(ctrl_to_parent)
        /\ UNCHANGED <<err_before_exec, sp_child, ctrl_fd_child>>
     \/ /\ ctrl_to_parent = <<>>
        /\ ~ctrl_fd_child
        /\ err_before_exec' = "kProtobufError"
        /\ sp_child' = KillProcessInstance_(sp_child)
        /\ UNCHANGED <<ctrl_to_parent, ctrl_fd_child>>
  /\ ctrl_fd_parent' = FALSE
  /\ sp_parent' = "returned"
  /\ UNCHANGED <<sp_type, ctrl_to_child, in_cgroup, h_can_start, h_execv>>
  /\ sp_ret' = IF sp_parent' = "returned" THEN ReturnAfterFork(err_before_exec')
                                         ELSE sp_ret
  /\ UNCHANGED <<sp_status_changes, sp_pid_indexed>>
  /\ UNCHANGED notSpawn

\* Parent, label AskChildToSuicide: CanStart{ok = false} is serialized and
\* the descriptor is closed without a flush, so the message may not leave the
\* buffer; a failed serialization kills the child.
ParentAskChildToSuicide ==
  /\ sp_parent = "AskChildToSuicide"
  /\ \E ok \in BOOLEAN, flushed \in BOOLEAN :
       IF ok
       THEN /\ ctrl_to_child' = IF flushed /\ ctrl_fd_child
                                THEN Append(ctrl_to_child, [ok |-> FALSE])
                                ELSE ctrl_to_child
            /\ UNCHANGED <<err_before_exec, sp_child, ctrl_fd_child>>
       ELSE /\ ~flushed
            /\ err_before_exec' = "kProtobufError"
            /\ sp_child' = KillProcessInstance_(sp_child)
            /\ ctrl_fd_child' = (ctrl_fd_child /\ ~ChildHasOwnGroup(sp_child))
            /\ UNCHANGED ctrl_to_child
  /\ ctrl_fd_parent' = FALSE
  /\ sp_parent' = "returned"
  /\ UNCHANGED <<sp_type, ctrl_to_parent, in_cgroup, h_can_start, h_execv>>
  /\ sp_ret' = IF sp_parent' = "returned" THEN ReturnAfterFork(err_before_exec')
                                         ELSE sp_ret
  /\ UNCHANGED <<sp_status_changes, sp_pid_indexed>>
  /\ UNCHANGED notSpawn

\* Child: the order of its calls up to the read of CanStart.
ChildNextCall(pc) ==
  CASE pc = "setgroups" -> "setresgid"
    [] pc = "setresgid" -> "setresuid"
    [] pc = "setresuid" -> "chdir"
    [] pc = "chdir"     -> "setpgid"

\* Child: setgroups, setresgid, setresuid, chdir; a failed call aborts.
ChildSetCredentials ==
  /\ sp_child \in {"setgroups", "setresgid", "setresuid", "chdir"}
  /\ \E rc \in {0, -1} :
       IF rc = -1
       THEN /\ sp_child' = "aborted"
            /\ ctrl_fd_child' = FALSE
       ELSE /\ sp_child' = ChildNextCall(sp_child)
            /\ UNCHANGED ctrl_fd_child
  /\ UNCHANGED <<sp_type, sp_parent, ctrl_to_child, ctrl_to_parent, ctrl_fd_parent,
                 in_cgroup, err_before_exec, h_can_start, h_execv>>
  /\ UNCHANGED <<sp_ret, sp_status_changes, sp_pid_indexed>>
  /\ UNCHANGED notSpawn

\* Child: setpgid(0, 0).
ChildSetpgid ==
  /\ sp_child = "setpgid"
  /\ sp_child' = "read_can_start"
  /\ UNCHANGED <<sp_type, sp_parent, ctrl_to_child, ctrl_to_parent, ctrl_fd_parent,
                 ctrl_fd_child, in_cgroup, err_before_exec, h_can_start, h_execv>>
  /\ UNCHANGED <<sp_ret, sp_status_changes, sp_pid_indexed>>
  /\ UNCHANGED notSpawn

\* Mutant of ChildMayContinue: the content of the message is not looked at.
ChildMayContinue_AnyMessage(ok, msg_ok) == ok

\* Child: the test after its read of CanStart: (!ok || !msg.ok()) aborts.
ChildMayContinue(ok, msg_ok) == ok /\ msg_ok

\* Child: read CanStart.  The read blocks until a message is there or the
\* parent's end is closed (then it fails).
ChildReadCanStart ==
  /\ sp_child = "read_can_start"
  /\ \/ /\ ctrl_to_child # <<>>
        /\ ctrl_to_child' = Tail(ctrl_to_child)
        /\ h_can_start' = IF Head(ctrl_to_child).ok THEN "ok" ELSE "suicide"
        /\ IF ChildMayContinue(TRUE, Head(ctrl_to_child).ok)
           THEN /\ sp_child' = "setup_io"
                /\ UNCHANGED ctrl_fd_child
           ELSE /\ sp_child' = "aborted"
                /\ ctrl_fd_child' = FALSE
     \/ /\ ctrl_to_child = <<>>
        /\ ~ctrl_fd_parent
        /\ h_can_start' = "failed"
        /\ IF ChildMayContinue(FALSE, FALSE)
           THEN /\ sp_child' = "setup_io"
                /\ UNCHANGED ctrl_fd_child
           ELSE /\ sp_child' = "aborted"
                /\ ctrl_fd_child' = FALSE
        /\ UNCHANGED ctrl_to_child
  /\ UNCHANGED <<sp_type, sp_parent, ctrl_to_parent, ctrl_fd_parent, in_cgroup,
                 err_before_exec, h_execv>>
  /\ UNCHANGED <<sp_ret, sp_status_changes, sp_pid_indexed>>
  /\ UNCHANGED notSpawn

\* Child: a Batch task opens its output files (a failed open aborts); a Crun
\* task without pty dups its socket.
ChildSetupIo ==
  /\ sp_child = "setup_io"
  /\ \E opened \in (IF sp_type = "Batch" THEN BOOLEAN ELSE {TRUE}) :
       IF opened
       THEN /\ sp_child' = "send_ready"
            /\ UNCHANGED ctrl_fd_child
       ELSE /\ sp_child' = "aborted"
            /\ ctrl_fd_child' = FALSE
  /\ UNCHANGED <<sp_type, sp_parent, ctrl_to_child, ctrl_to_parent, ctrl_fd_parent,
                 in_cgroup, err_before_exec, h_can_start, h_execv>>
  /\ UNCHANGED <<sp_ret, sp_status_changes, sp_pid_indexed>>
  /\ UNCHANGED notSpawn

\* Child: send ChildProcessReady{ok = true} and close the control socket; a
\* failed flush aborts.
ChildSendReady ==
  /\ sp_child = "send_ready"
  /\ \E ok \in (IF ctrl_fd_parent THEN BOOLEAN ELSE {FALSE}) :
       IF ok
       THEN /\ ctrl_to_parent' = Append(ctrl_to_parent, [ok |-> TRUE])
            /\ sp_child' = "execv"
       ELSE /\ sp_child' = "aborted"
            /\ UNCHANGED ctrl_to_parent
  /\ ctrl_fd_child' = FALSE
  /\ UNCHANGED <<sp_type, sp_parent, ctrl_to_child, ctrl_fd_parent, in_cgroup,
                 err_before_exec, h_can_start, h_execv>>
  /\ UNCHANGED <<sp_ret, sp_status_changes, sp_pid_indexed>>
  /\ UNCHANGED notSpawn

\* Child: environment, argv and execv("/bin/bash"); abort() if it returns.
ChildExecv ==
  /\ sp_child = "execv"
  /\ h_execv' = TRUE
  /\ \E rc \in {0, -1} :
       sp_child' = IF rc = -1 THEN "aborted" ELSE "running"
  /\ UNCHANGED <<sp_type, sp_parent, ctrl_to_child, ctrl_to_parent, ctrl_fd_parent,
                 ctrl_fd_child, in_cgroup, err_before_exec, h_can_start>>
  /\ UNCHANGED <<sp_ret, sp_status_changes, sp_pid_indexed>>
  /\ UNCHANGED notSpawn

NextSpawn ==
  \/ ParentFork
  \/ LaunchAfterSpawn
  \/ ParentMigrateProcIn
  \/ ParentSendCanStart
  \/ ParentReadChildReady
  \/ ParentAskChildToSuicide
  \/ ChildSetCredentials
  \/ ChildSetpgid
  \/ ChildReadCanStart
  \/ ChildSetupIo
  \/ ChildSendReady
  \/ ChildExecv

\* ------------------------------------------------------ cgroup recovery scan
\* CgroupManager::Init, the removal of the cgroups left by a former run.
notScan == <<jmVars, spVars, initVars, fwdVars,
             envVars, cgVars,
    bpfVars,
    endVars,
    outVars,
    inVars,
    syncVars,
    keyVars>>

ScanIds == 1..MaxScanId

\* The controller roots that are walked for a cgroup version.
ScanRoots(version) ==
  IF version = "CGROUP_V1"
  THEN <<"CPU_CONTROLLER", "MEMORY_CONTROLLER", "DEVICES_CONTROLLER">>
  ELSE <<"RootCgroupFullPath">>

InitScan ==
  /\ cg_version_ \in {"CGROUP_V1", "CGROUP_V2"}
  /\ running_job_ids \in SUBSET ScanIds
  /\ cg_dirs \in [{ScanRoots(cg_version_)[i] : i \in 1..Len(ScanRoots(cg_version_))}
                    -> SUBSET ScanIds]
  /\ scan_pc = "walk"
  /\ scan_roots = ScanRoots(cg_version_)
  /\ scan_todo = cg_dirs[Head(scan_roots)]
  /\ scan_cur = 0
  /\ h_dirs0 = cg_dirs
  /\ h_rm_failed = FALSE
  /\ IdleJM
  /\ IdleSpawn
  /\ IdleInit
  /\ IdleFwd
  /\ IdleEnv
  /\ IdleCg
  /\ IdleOut
  /\ IdleIn
  /\ IdleSync
  /\ IdleKeys
  /\ IdleEnd
  /\ IdleBpf

\* Legacy variant: "if (task_ids.contains(task_id)) continue;".
SkipsLegacy(task_ids, task_id) == task_id \in task_ids

\* Unified variant: "if (!job_ids.contains(job_id)) continue;".
SkipsV2(job_ids, job_id) == job_id \notin job_ids

\* RmJobCgroupsExcept_ / RmJobCgroupsUnderControllerExcept_, one iteration of
\* "while (ret == 0)".  The "continue" of a skipped entry jumps over
\* cgroup_walk_tree_next, so the next iteration finds the same entry.  The
\* walk returns the entries of a root in any order, the root itself first.
RmJobCgroupsUnderControllerExcept_ ==
  /\ scan_pc = "walk"
  /\ cg_version_ = "CGROUP_V1"
  /\ IF scan_cur # 0 /\ SkipsLegacy(running_job_ids, scan_cur)
     THEN UNCHANGED scanVars
     ELSE /\ \E err \in (IF scan_cur # 0 THEN {0, -1} ELSE {0}) :
               /\ cg_dirs' = IF scan_cur # 0 /\ err = 0
                             THEN [cg_dirs EXCEPT ![Head(scan_roots)] = @ \ {scan_cur}]
                             ELSE cg_dirs
               /\ h_rm_failed' = (h_rm_failed \/ err # 0)
          /\ IF scan_todo # {}
             THEN /\ \E id \in scan_todo :
                       /\ scan_cur' = id
                       /\ scan_todo' = scan_todo \ {id}
                  /\ UNCHANGED <<scan_roots, scan_pc>>
             ELSE /\ scan_roots' = Tail(scan_roots)
                  /\ scan_cur' = 0
                  /\ IF Len(scan_roots) > 1
                     THEN /\ scan_todo' = cg_dirs[scan_roots[2]]
                          /\ UNCHANGED scan_pc
                     ELSE /\ scan_pc' = "done"
                          /\ UNCHANGED scan_todo
          /\ UNCHANGED <<cg_version_, running_job_ids, h_dirs0>>
  /\ UNCHANGED notScan

\* RmCgroupsV2Except_, one iteration over the directory_iterator (entries in
\* any order).  std::filesystem::remove throws when it fails; the exception
\* is caught outside the loop and ends the scan.
RmCgroupsV2Except_ ==
  /\ scan_pc = "walk"
  /\ cg_version_ = "CGROUP_V2"
  /\ IF scan_todo = {}
     THEN /\ scan_pc' = "done"
          /\ scan_roots' = <<>>
          /\ UNCHANGED <<cg_dirs, scan_todo, h_rm_failed>>
     ELSE \E id \in scan_todo :
            /\ scan_todo' = scan_todo \ {id}
            /\ IF SkipsV2(running_job_ids, id)
               THEN UNCHANGED <<cg_dirs, scan_pc, scan_roots, h_rm_failed>>
               ELSE \E removed \in BOOLEAN :
                      IF removed
                      THEN /\ cg_dirs' = [cg_dirs EXCEPT ![Head(scan_roots)] = @ \ {id}]
                           /\ UNCHANGED <<scan_pc, scan_roots, h_rm_failed>>
                      ELSE /\ h_rm_failed' = TRUE
                           /\ scan_pc' = "done"
                           /\ scan_roots' = <<>>
                           /\ UNCHANGED cg_dirs
  /\ UNCHANGED <<cg_version_, running_job_ids, scan_cur, h_dirs0>>
  /\ UNCHANGED notScan

NextScan ==
  \/ RmJobCgroupsUnderControllerExcept_
  \/ RmCgroupsV2Except_

\* -------------------------------------------------------- startup handshake
\* GlobalVariableInit from the answer of the Supervisor keeper to CranedReady.
notInit == <<jmVars, spVars, scanVars, fwdVars,
             envVars, cgVars,
    bpfVars,
    endVars,
    outVars,
    inVars,
    syncVars,
    keyVars>>

InitIds == 1..MaxInitId

\* The configure request of CTLD has arrived (config_future.get() returned);
\* job_id_tasks_map() has an entry for every job of job_map().
InitInit ==
  /\ init_pc = "config_loop"
  /\ ctld_job_map \in SUBSET InitIds
  /\ job_id_pid_map \in SUBSET InitIds
  /\ task_ids_supervisor = job_id_pid_map
  /\ job_map_todo = ctld_job_map
  /\ running_jobs = {}
  /\ nonexistent_jobs = <<>>
  /\ unrecorded_logged = {}
  /\ terminate_sent = {}
  /\ recover_calls = <<>>
  /\ craned_ready_calls = <<>>
  /\ IdleJM
  /\ IdleSpawn
  /\ IdleScan
  /\ IdleFwd
  /\ IdleEnv
  /\ IdleCg
  /\ IdleOut
  /\ IdleIn
  /\ IdleSync
  /\ IdleKeys
  /\ IdleEnd
  /\ IdleBpf

\* Mutant of EraseSucceeds: every job of CTLD is taken as alive.
EraseSucceeds_Always(ids, job_id) == TRUE

\* task_ids_supervisor.erase(job_id) returns the number of erased elements.
EraseSucceeds(ids, job_id) == job_id \in ids

\* One iteration of "for (job_id, job_spec) : grpc_config_req.job_map()";
\* the map is iterated in any order.
ConfigLoopStep ==
  /\ init_pc = "config_loop"
  /\ \E job_id \in job_map_todo :
       /\ job_map_todo' = job_map_todo \ {job_id}
       /\ task_ids_supervisor' = task_ids_supervisor \ {job_id}
       /\ IF EraseSucceeds(task_ids_supervisor, job_id)
          THEN /\ running_jobs' = running_jobs \cup {job_id}
               /\ UNCHANGED nonexistent_jobs
          ELSE /\ nonexistent_jobs' = Append(nonexistent_jobs, job_id)
               /\ UNCHANGED running_jobs
  /\ UNCHANGED <<init_pc, ctld_job_map, job_id_pid_map, unrecorded_logged,
                 terminate_sent, recover_calls, craned_ready_calls>>
  /\ UNCHANGED notInit

\* After the loop: the Supervisors left in task_ids_supervisor are written to
\* the log, and nothing else is done with them.
LogUnrecorded ==
  /\ init_pc = "config_loop"
  /\ job_map_todo = {}
  /\ unrecorded_logged' = task_ids_supervisor
  /\ init_pc' = "cg_init"
  /\ UNCHANGED <<ctld_job_map, job_id_pid_map, task_ids_supervisor, job_map_todo,
                 running_jobs, nonexistent_jobs, terminate_sent, recover_calls,
                 craned_ready_calls>>
  /\ UNCHANGED notInit

\* g_cg_mgr->Init(): std::exit(1) when a required controller is not mounted.
CgInit ==
  /\ init_pc = "cg_init"
  /\ \E mounted \in BOOLEAN :
       init_pc' = IF mounted THEN "recover" ELSE "exited"
  /\ UNCHANGED <<ctld_job_map, job_id_pid_map, task_ids_supervisor, job_map_todo,
                 running_jobs, nonexistent_jobs, unrecorded_logged, terminate_sent,
                 recover_calls, craned_ready_calls>>
  /\ UNCHANGED notInit

\* g_cg_mgr->Recover(running_jobs), g_job_mgr->Recover(job_status_map of
\* running_jobs), g_server->FinishRecover(), CranedReady(nonexistent_jobs).
RecoverAndReady ==
  /\ init_pc = "recover"
  /\ recover_calls' = Append(recover_calls, running_jobs)
  /\ craned_ready_calls' = Append(craned_ready_calls, nonexistent_jobs)
  /\ init_pc' = "ready"
  /\ UNCHANGED <<ctld_job_map, job_id_pid_map, task_ids_supervisor, job_map_todo,
                 running_jobs, nonexistent_jobs, unrecorded_logged, terminate_sent>>
  /\ UNCHANGED notInit

NextInit ==
  \/ ConfigLoopStep
  \/ LogUnrecorded
  \/ CgInit
  \/ RecoverAndReady

\* -------------------------------------------------------------- CforedClient
\* The Supervisor's client of FANOUT: the stream thread AsyncSendRecvThread_,
\* the writer thread CleanOutputQueueAndWriteToStreamThread_, the event loop
\* thread that watches the child's output fd, and gRPC with FANOUT behind it.
notFwd == <<jmVars, spVars, scanVars, initVars,
            envVars, cgVars,
    bpfVars,
    endVars,
    outVars,
    inVars,
    syncVars,
    keyVars>>

\* InitChannelAndStub has started the stream thread and SetUpTaskFwd has put a
\* poll handle on the child's output fd.
InitFwd ==
  /\ m_stopped_ = FALSE
  /\ fwd_state = "Registering"
  /\ stream_pc = "AsyncNext"
  /\ write_pending = FALSE
  /\ m_output_queue_ = <<>>
  /\ writer_pc = "none"
  /\ writer_output = 0
  /\ m_cq_ = <<>>
  /\ grpc_inflight = <<"Prepare">>
  /\ read_outstanding = FALSE
  /\ stream_broken = FALSE
  /\ fanout_got = {}
  /\ fanout_sent = {}
  /\ output_fd_open = TRUE
  /\ n_read = 0
  /\ n_input = 0
  /\ stream_writes = <<>>
  /\ h_stopped_in = "none"
  /\ IdleJM
  /\ IdleSpawn
  /\ IdleScan
  /\ IdleInit
  /\ IdleEnv
  /\ IdleCg
  /\ IdleOut
  /\ IdleIn
  /\ IdleSync
  /\ IdleKeys
  /\ IdleEnd
  /\ IdleBpf

\* A process that a failed CRANE_ASSERT has aborted runs none of its threads.
Alive == stream_pc # "aborted"

CqEvent(tag, ok, type) == [tag |-> tag, ok |-> ok, type |-> type]

\* ~CforedClient: the stop flag is set.
SetStopped ==
  /\ ~m_stopped_
  /\ fwd_state # "End"
  /\ m_stopped_' = TRUE
  /\ h_stopped_in' = fwd_state
  /\ UNCHANGED <<fwd_state, stream_pc, write_pending, m_output_queue_, writer_pc,
                 writer_output, m_cq_, grpc_inflight, read_outstanding, stream_broken,
                 fanout_got, fanout_sent, output_fd_open, n_read, n_input, stream_writes>>
  /\ UNCHANGED notFwd

\* The connection to FANOUT fails.
StreamFails ==
  /\ ~stream_broken
  /\ stream_pc # "exited"
  /\ stream_broken' = TRUE
  /\ UNCHANGED <<m_stopped_, fwd_state, stream_pc, write_pending, m_output_queue_,
                 writer_pc, writer_output, m_cq_, grpc_inflight, read_outstanding,
                 fanout_got, fanout_sent, output_fd_open, n_read, n_input,
                 stream_writes, h_stopped_in>>
  /\ UNCHANGED notFwd

\* gRPC: the oldest started operation (the stream call itself, or a write)
\* completes; its tag goes to the completion queue, and FANOUT has the
\* request if the connection is up.
GrpcWriteDone ==
  /\ grpc_inflight # <<>>
  /\ LET op == Head(grpc_inflight) IN
     /\ m_cq_' = Append(m_cq_, CqEvent(IF op = "Prepare" THEN "Prepare" ELSE "Write",
                                       ~stream_broken, "none"))
     /\ fanout_got' = IF stream_broken \/ op \in {"Prepare", "TASK_OUTPUT"}
                      THEN fanout_got ELSE fanout_got \cup {op}
  /\ grpc_inflight' = Tail(grpc_inflight)
  /\ UNCHANGED <<m_stopped_, fwd_state, stream_pc, write_pending, m_output_queue_,
                 writer_pc, writer_output, read_outstanding, stream_broken,
                 fanout_sent, output_fd_open, n_read, n_input,
                 stream_writes, h_stopped_in>>
  /\ UNCHANGED notFwd

\* The replies FANOUT may send next.  After its acknowledgement of the
\* registration it may send, once, a reply of a type the client expects in
\* no state ("UNEXPECTED").
FanoutReplies ==
  (IF "REGISTER_REPLY" \in fanout_sent /\ "UNEXPECTED" \notin fanout_sent
   THEN {"UNEXPECTED"} ELSE {})
  \cup
  (IF "SUPERVISOR_REGISTER" \in fanout_got /\ "REGISTER_REPLY" \notin fanout_sent
   THEN {"REGISTER_REPLY"} ELSE {})
  \cup
  (IF "SUPERVISOR_UNREGISTER" \in fanout_got /\ "UNREGISTER_REPLY" \notin fanout_sent
   THEN {"UNREGISTER_REPLY"} ELSE {})
  \cup
  (IF /\ "REGISTER_REPLY" \in fanout_sent
      /\ "SUPERVISOR_UNREGISTER" \notin fanout_got
      /\ n_input < MaxInput
   THEN {"TASK_INPUT"} ELSE {})

\* gRPC: the outstanding read completes, with a reply of FANOUT or, when the
\* connection has failed, without one.
GrpcReadDone ==
  /\ read_outstanding
  /\ read_outstanding' = FALSE
  /\ IF stream_broken
     THEN /\ m_cq_' = Append(m_cq_, CqEvent("Read", FALSE, "none"))
          /\ UNCHANGED <<fanout_sent, n_input>>
     ELSE \E type \in FanoutReplies :
            /\ m_cq_' = Append(m_cq_, CqEvent("Read", TRUE, type))
            /\ fanout_sent' = IF type = "TASK_INPUT" THEN fanout_sent
                              ELSE fanout_sent \cup {type}
            /\ n_input' = IF type = "TASK_INPUT" THEN n_input + 1 ELSE n_input
  /\ UNCHANGED <<m_stopped_, fwd_state, stream_pc, write_pending, m_output_queue_,
                 writer_pc, writer_output, grpc_inflight, stream_broken, fanout_got,
                 output_fd_open, n_read,
                 stream_writes, h_stopped_in>>
  /\ UNCHANGED notFwd

\* Mutant of TaskOutPutForward: the chunk goes to the head of the queue.
TaskOutPutForward_AtHead(q, msg) == <<msg>> \o q

\* TaskOutPutForward: m_output_queue_.enqueue(msg); the event loop thread is
\* the only producer.
TaskOutPutForward(q, msg) == Append(q, msg)

\* SetUpTaskFwd, the poll callback of the output fd (event loop thread): a
\* chunk is read and forwarded, or the end of the output closes the handle.
PollOutputFd ==
  /\ Alive
  /\ output_fd_open
  /\ \E read_finished \in BOOLEAN :
       IF read_finished
       THEN /\ output_fd_open' = FALSE
            /\ UNCHANGED <<n_read, m_output_queue_>>
       ELSE /\ n_read < MaxChunks
            /\ n_read' = n_read + 1
            /\ m_output_queue_' = TaskOutPutForward(m_output_queue_, n_read + 1)
            /\ UNCHANGED output_fd_open
  /\ UNCHANGED <<m_stopped_, fwd_state, stream_pc, write_pending, writer_pc,
                 writer_output, m_cq_, grpc_inflight, read_outstanding, stream_broken,
                 fanout_got, fanout_sent, n_input,
                 stream_writes, h_stopped_in>>
  /\ UNCHANGED notFwd

\* The idle handler of the event loop: once the stop flag is set, every
\* handle is closed and the loop stops.
IdleEvent ==
  /\ Alive
  /\ m_stopped_
  /\ output_fd_open
  /\ output_fd_open' = FALSE
  /\ UNCHANGED <<m_stopped_, fwd_state, stream_pc, write_pending, m_output_queue_,
                 writer_pc, writer_output, m_cq_, grpc_inflight, read_outstanding,
                 stream_broken, fanout_got, fanout_sent, n_read, n_input,
                 stream_writes, h_stopped_in>>
  /\ UNCHANGED notFwd

\* Writer thread: output / ok of m_output_queue_.try_dequeue(output).
WriterTryDequeue ==
  /\ Alive
  /\ writer_pc = "try_dequeue"
  /\ IF m_output_queue_ = <<>>
     THEN /\ writer_output' = 0
          /\ UNCHANGED m_output_queue_
     ELSE /\ writer_output' = Head(m_output_queue_)
          /\ m_output_queue_' = Tail(m_output_queue_)
  /\ writer_pc' = "while"
  /\ UNCHANGED <<m_stopped_, fwd_state, stream_pc, write_pending, m_cq_, grpc_inflight,
                 read_outstanding, stream_broken, fanout_got, fanout_sent,
                 output_fd_open, n_read, n_input,
                 stream_writes, h_stopped_in>>
  /\ UNCHANGED notFwd

\* Writer thread: "while (!m_stopped_ || ok)", and the sleep of "if (!ok)".
WriterWhile ==
  /\ Alive
  /\ writer_pc = "while"
  /\ writer_pc' = IF writer_output # 0 THEN "write"
                  ELSE IF m_stopped_ THEN "exited"
                  ELSE "try_dequeue"
  /\ UNCHANGED <<m_stopped_, fwd_state, stream_pc, write_pending, m_output_queue_,
                 writer_output, m_cq_, grpc_inflight, read_outstanding, stream_broken,
                 fanout_got, fanout_sent, output_fd_open, n_read, n_input,
                 stream_writes, h_stopped_in>>
  /\ UNCHANGED notFwd

\* Mutant of WriterMayWrite: the writer thread does not wait.
WriterMayWrite_NoWait(pending) == TRUE

\* "while (write_pending->load(...)) sleep": the writer thread goes on once
\* no write is pending.
WriterMayWrite(pending) == ~pending

\* Writer thread: wait until no write is pending, then write the chunk.
WriterWrite ==
  /\ Alive
  /\ writer_pc = "write"
  /\ WriterMayWrite(write_pending)
  /\ write_pending' = TRUE
  /\ stream_writes' = Append(stream_writes, [type |-> "TASK_OUTPUT", msg |-> writer_output])
  /\ grpc_inflight' = Append(grpc_inflight, "TASK_OUTPUT")
  /\ writer_pc' = "try_dequeue"
  /\ UNCHANGED <<m_stopped_, fwd_state, stream_pc, m_output_queue_, writer_output, m_cq_,
                 read_outstanding, stream_broken, fanout_got, fanout_sent,
                 output_fd_open, n_read, n_input, h_stopped_in>>
  /\ UNCHANGED notFwd

\* Stream thread: AsyncNext returns TIMEOUT (no event within the deadline).
\* With the stop flag set, and unless the state is Unregistering already, the
\* thread goes on to join the writer thread.
StreamTimeout ==
  /\ stream_pc = "AsyncNext"
  /\ m_cq_ = <<>>
  /\ stream_pc' = IF m_stopped_ /\ fwd_state # "Unregistering" THEN "join" ELSE stream_pc
  /\ UNCHANGED <<m_stopped_, fwd_state, write_pending, m_output_queue_, writer_pc,
                 writer_output, m_cq_, grpc_inflight, read_outstanding, stream_broken,
                 fanout_got, fanout_sent, output_fd_open, n_read, n_input,
                 stream_writes, h_stopped_in>>
  /\ UNCHANGED notFwd

\* output_clean_thread.join() returns: the thread was never started, was
\* joined before, or has left its function.
Joined(pc) == pc \in {"none", "joined", "exited"}

\* Stream thread, TIMEOUT branch after the join: a pending write is left to
\* the state machine; otherwise UNREGISTER is written with WriteLast.
StreamTimeoutJoined ==
  /\ stream_pc = "join"
  /\ Joined(writer_pc)
  /\ writer_pc' = IF writer_pc = "exited" THEN "joined" ELSE writer_pc
  /\ stream_pc' = "AsyncNext"
  /\ IF write_pending
     THEN UNCHANGED <<fwd_state, grpc_inflight, stream_writes>>
     ELSE /\ stream_writes' = Append(stream_writes,
                                     [type |-> "SUPERVISOR_UNREGISTER", msg |-> 0])
          /\ grpc_inflight' = Append(grpc_inflight, "SUPERVISOR_UNREGISTER")
          /\ fwd_state' = "Unregistering"
  /\ UNCHANGED <<m_stopped_, write_pending, m_output_queue_, writer_output, m_cq_,
                 read_outstanding, stream_broken, fanout_got, fanout_sent,
                 output_fd_open, n_read, n_input, h_stopped_in>>
  /\ UNCHANGED notFwd

\* "if (!ok && tag != Tag::Prepare) state = State::End".
StateOnEvent(state, ev) ==
  IF ~ev.ok /\ ev.tag # "Prepare" THEN "End" ELSE state

\* The switch of the state machine for one event: the next state, the value
\* of write_pending, whether a read is issued, whether the writer thread is
\* started, the request written ("none": no write), and whether a
\* CRANE_ASSERT of the case does not hold.
Switch(state, ev, pending) ==
  LET same == [state |-> state, pending |-> pending, read |-> FALSE, start |-> FALSE,
               write |-> "none", assert_fails |-> FALSE]
  IN CASE state = "Registering" ->
            [same EXCEPT !.state = "WaitRegisterAck", !.pending = TRUE,
                         !.write = "SUPERVISOR_REGISTER",
                         !.assert_fails = (ev.tag # "Prepare")]
       [] state = "WaitRegisterAck" ->
            IF ev.tag = "Write" THEN [same EXCEPT !.pending = FALSE, !.read = TRUE]
            ELSE IF ev.tag = "Read"
                 THEN [same EXCEPT !.state = "Forwarding", !.read = TRUE, !.start = TRUE]
                 ELSE same
       [] state = "Forwarding" ->
            IF ev.tag = "Write" THEN [same EXCEPT !.pending = FALSE]
            ELSE IF ev.type # "TASK_INPUT"
                 THEN [same EXCEPT !.assert_fails = (ev.tag # "Read")]
                 ELSE [same EXCEPT !.read = TRUE, !.assert_fails = (ev.tag # "Read")]
       [] state = "Unregistering" ->
            IF ev.tag = "Write" THEN same
            ELSE IF ev.type # "UNREGISTER_REPLY"
                 THEN [same EXCEPT !.read = TRUE, !.assert_fails = (ev.tag # "Read")]
                 ELSE [same EXCEPT !.state = "End", !.assert_fails = (ev.tag # "Read")]
       [] state = "End" -> same

\* Stream thread: AsyncNext returns an event and the state machine handles
\* it.  A CRANE_ASSERT that does not hold aborts the process, or does nothing
\* in a build without assertions.  In the state End the stop flag is set and
\* the thread goes on to join the writer thread.
StreamGotEvent ==
  /\ stream_pc = "AsyncNext"
  /\ m_cq_ # <<>>
  /\ m_cq_' = Tail(m_cq_)
  /\ LET ev == Head(m_cq_)
         sw == Switch(StateOnEvent(fwd_state, ev), ev, write_pending)
     IN \E aborts \in (IF sw.assert_fails THEN BOOLEAN ELSE {FALSE}) :
          IF aborts
          THEN /\ stream_pc' = "aborted"
               /\ UNCHANGED <<m_stopped_, fwd_state, write_pending, writer_pc,
                              grpc_inflight, read_outstanding, stream_writes>>
          ELSE /\ fwd_state' = sw.state
               /\ write_pending' = sw.pending
               /\ read_outstanding' = (read_outstanding \/ sw.read)
               /\ writer_pc' = IF sw.start /\ writer_pc = "none" THEN "try_dequeue"
                               ELSE writer_pc
               /\ IF sw.write = "none"
                  THEN UNCHANGED <<grpc_inflight, stream_writes>>
                  ELSE /\ grpc_inflight' = Append(grpc_inflight, sw.write)
                       /\ stream_writes' = Append(stream_writes,
                                                  [type |-> sw.write, msg |-> 0])
               /\ m_stopped_' = (m_stopped_ \/ sw.state = "End")
               /\ stream_pc' = IF sw.state = "End" THEN "join_end" ELSE stream_pc
  /\ UNCHANGED <<m_output_queue_, writer_output, stream_broken, fanout_got, fanout_sent,
                 output_fd_open, n_read, n_input, h_stopped_in>>
  /\ UNCHANGED notFwd

\* Stream thread, state End after the join: the loop is left.
StreamEndJoined ==
  /\ stream_pc = "join_end"
  /\ Joined(writer_pc)
  /\ writer_pc' = IF writer_pc = "exited" THEN "joined" ELSE writer_pc
  /\ stream_pc' = "exited"
  /\ UNCHANGED <<m_stopped_, fwd_state, write_pending, m_output_queue_, writer_output,
                 m_cq_, grpc_inflight, read_outstanding, stream_broken, fanout_got,
                 fanout_sent, output_fd_open, n_read, n_input,
                 stream_writes, h_stopped_in>>
  /\ UNCHANGED notFwd

NextFwd ==
  \/ SetStopped
  \/ StreamFails
  \/ GrpcWriteDone
  \/ GrpcReadDone
  \/ PollOutputFd
  \/ IdleEvent
  \/ WriterTryDequeue
  \/ WriterWhile
  \/ WriterWrite
  \/ StreamTimeout
  \/ StreamTimeoutJoined
  \/ StreamGotEvent
  \/ StreamEndJoined

\* ------------------------------------------------- the child's environment
\* The forked child of SpawnProcessInInstance_ between the handshake and
\* execv: it builds task_env_map and res_env_map, clears its environment and
\* sets the variables of the two maps.
notEnv == <<jmVars, spVars, scanVars, initVars, fwdVars, cgVars,
    bpfVars,
    endVars,
    outVars,
    inVars,
    syncVars,
    keyVars>>

EnvNames ==
  {"HOME", "SHELL", "CRANE_JOB_NAME", "CRANE_JOB_ID", "TERM", "CRANE_TIMELIMIT",
   "CRANE_MEM_PER_NODE", "CUDA_VISIBLE_DEVICES", "USER_VAR"}

\* The variables Craned itself runs with, which the child inherits.
InheritedEnv == ("HOME" :> "of_craned")

\* Time limits of a task, in seconds.
TimeLimits == {0, 59, 3661}

\* A map of the names in S, every one with the value v.
MapOf(S, v) == [n \in S |-> v]

InitEnv ==
  /\ env_pc = "GetTaskEnvMap"
  /\ env_task \in
       [env           : {MapOf(S, "of_job") : S \in SUBSET EnvNames},
        get_user_env  : BOOLEAN,
        type          : {"Batch", "Crun"},
        term_env      : {"", "xterm"},
        time_limit    : TimeLimits,
        dev_env       : {MapOf(S, "of_device") : S \in SUBSET {"CUDA_VISIBLE_DEVICES"}},
        clearenv_ok   : BOOLEAN]
  /\ task_env_map = <<>>
  /\ res_env_map = <<>>
  /\ environ = InheritedEnv
  /\ IdleJM
  /\ IdleSpawn
  /\ IdleScan
  /\ IdleInit
  /\ IdleFwd
  /\ IdleCg
  /\ IdleOut
  /\ IdleIn
  /\ IdleSync
  /\ IdleKeys
  /\ IdleEnd
  /\ IdleBpf

\* std::unordered_map::emplace: a key that is in the map keeps its value.
Emplace(m, name, value) ==
  IF name \in DOMAIN m THEN m ELSE (name :> value) @@ m

\* emplace of every pair of the map add.
EmplaceAll(m, add) ==
  [n \in DOMAIN m \cup DOMAIN add |-> IF n \in DOMAIN m THEN m[n] ELSE add[n]]

\* setenv(name, value, 1) for every pair of m: the value is overwritten.
FuncSetEnv(env, m) ==
  [n \in DOMAIN env \cup DOMAIN m |-> IF n \in DOMAIN m THEN m[n] ELSE env[n]]

\* "{:0>2}:{:0>2}:{:0>2}" of hours, minutes and seconds.
TimeLimitString(time_limit_sec) ==
  [hours   |-> time_limit_sec \div 3600,
   minutes |-> (time_limit_sec % 3600) \div 60,
   seconds |-> time_limit_sec % 60]

\* The variables of GetTaskEnvMap and of GetResourceEnvMapByResInNode, stage
\* by stage, in the order of the code.
EnvStages(task) ==
  << task.env,
     IF task.get_user_env
     THEN ("HOME" :> "of_pwd_entry") @@ ("SHELL" :> "of_pwd_entry") ELSE <<>>,
     ("CRANE_JOB_NAME" :> "of_task") @@ ("CRANE_JOB_ID" :> "of_task"),
     IF task.type = "Crun" /\ task.term_env # ""
     THEN ("TERM" :> task.term_env) ELSE <<>>,
     ("CRANE_TIMELIMIT" :> TimeLimitString(task.time_limit)),
     EmplaceAll(task.dev_env, ("CRANE_MEM_PER_NODE" :> "of_resource")) >>

\* TaskInstance::GetTaskEnvMap: the first five stages, each added by emplace.
GetTaskEnvMap ==
  /\ env_pc = "GetTaskEnvMap"
  /\ LET st == EnvStages(env_task) IN
     task_env_map' =
       EmplaceAll(EmplaceAll(EmplaceAll(EmplaceAll(st[1], st[2]), st[3]), st[4]), st[5])
  /\ env_pc' = "GetResourceEnvMapByResInNode"
  /\ UNCHANGED <<env_task, res_env_map, environ>>
  /\ UNCHANGED notEnv

\* CgroupManager::GetResourceEnvMapByResInNode: the device variables, then
\* emplace of CRANE_MEM_PER_NODE.
GetResourceEnvMapByResInNode ==
  /\ env_pc = "GetResourceEnvMapByResInNode"
  /\ res_env_map' = EnvStages(env_task)[6]
  /\ env_pc' = "clearenv"
  /\ UNCHANGED <<env_task, task_env_map, environ>>
  /\ UNCHANGED notEnv

\* clearenv(), whose failure is only reported.
ClearEnv ==
  /\ env_pc = "clearenv"
  /\ environ' = IF env_task.clearenv_ok THEN <<>> ELSE environ
  /\ env_pc' = "FuncSetEnv"
  /\ UNCHANGED <<env_task, task_env_map, res_env_map>>
  /\ UNCHANGED notEnv

\* FuncSetEnv(task_env_map); FuncSetEnv(res_env_map);
ChildSetEnv ==
  /\ env_pc = "FuncSetEnv"
  /\ environ' = FuncSetEnv(FuncSetEnv(environ, task_env_map), res_env_map)
  /\ env_pc' = "execv"
  /\ UNCHANGED <<env_task, task_env_map, res_env_map>>
  /\ UNCHANGED notEnv

NextEnv ==
  \/ GetTaskEnvMap
  \/ GetResourceEnvMapByResInNode
  \/ ClearEnv
  \/ ChildSetEnv

\* ---------------------------------------------------------------------------
\* One job's cgroup: CgroupManager::AllocateAndGetJobCgroup, step by step, and
\* the destruction of the handle it returned.
\* ---------------------------------------------------------------------------

notCg == <<jmVars, spVars, scanVars, initVars, fwdVars, envVars,
    bpfVars,
    endVars,
    outVars,
    inVars,
    syncVars,
    keyVars>>

\* The device files of the node's devices, and the slot of the device a
\* file belongs to: a device has up to two files (device_file_metas).
Devs == 1..MaxDev

SlotOf(d) == (d + 1) \div 2

Slots == {SlotOf(d) : d \in Devs}

\* Core counts are tenths of a core.
CoreTenths == 0..MaxCoreTenths

\* A CgroupSpec and what the call runs under: cg_spec.recovered,
\* g_config.Plugin.Enabled, GetCgroupVersion(), the CRANE_ENABLE_BPF build
\* flag, the slots of Craned::g_this_node_device, the slots of the job's
\* dedicated resources, its cpu_core_limit, and what the BPF device map holds
\* when the call begins: the devices with an entry of this cgroup and those
\* with an entry of another job's cgroup.
CgroupSpecs ==
  [recovered : BOOLEAN, plugin : BOOLEAN, version : {"V1", "V2"},
   bpf : BOOLEAN, node : SUBSET Slots, request : SUBSET Slots,
   cores : CoreTenths, installed : SUBSET Devs, others : SUBSET Devs]

\* The keys of the BPF device map: {cgroup_id, major, minor}; a device file
\* stands for its major and minor.
KeysOf(cgroup_id, ds) == {<<cgroup_id, d>> : d \in ds}

\* The devices with an entry of the cgroup in the map.
DevicesOf(map, cgroup_id) == {k[2] : k \in {e \in map : e[1] = cgroup_id}}

\* The loop of SetDeviceAccess (both versions) over g_this_node_device: the
\* device files of the node devices whose slot is not in the request.
DeniedDevices(node, request) ==
  {d \in Devs : SlotOf(d) \in node /\ SlotOf(d) \notin request}

\* The same loop in RecoverFromCgSpec, over the slots of cg_spec.
RecoveredDevices(spec) ==
  LET all_request_slots == spec.request
  IN {d \in Devs : SlotOf(d) \in spec.node /\ SlotOf(d) \notin all_request_slots}

\* The four limit writes of AllocatableResourceAllocator::Allocate.
LimitWrites == {"cpu", "mem", "soft", "swap"}

\* std::round(x) of x = num / den >= 0: halves go away from zero.
Round(num, den) == (2 * num + den) \div (2 * den)

\* static_cast<uint64_t>(x) of x = num / den >= 0: the fraction is dropped.
Truncate(num, den) == num \div den

\* CgroupV1::SetCpuCoreLimit: cpu.cfs_quota_us = uint64_t(std::round(base *
\* core_num)) and cpu.cfs_period_us = base, base = 1 << 16.
CpuCoreLimitV1(tenths) == <<Round(65536 * tenths, 10), 65536>>

\* CgroupV2::SetCpuCoreLimit: cpu.max = "quota period" with quota =
\* static_cast<uint64_t>(period * core_num), period = 1 << 16.
CpuCoreLimitV2(tenths) == <<Truncate(65536 * tenths, 10), 65536>>

\* A recovered job's cgroup directory exists, and the BPF map may hold
\* entries the job's first allocation installed (all of them, or some when
\* an earlier erasure stopped halfway).
InitCg ==
  /\ cg_spec \in CgroupSpecs
  /\ cg_spec.installed \subseteq
       (IF cg_spec.recovered /\ cg_spec.version = "V2" /\ cg_spec.bpf
        THEN DeniedDevices(cg_spec.node, cg_spec.request) ELSE {})
  /\ cg_spec.others # {} => cg_spec.version = "V2" /\ cg_spec.bpf
  /\ cg_pc = "start"
  /\ cg_unique_ptr = "none"
  /\ cg_ret = "none"
  /\ cg_done = {}
  /\ cg_failed = {}
  /\ cg_dir = cg_spec.recovered
  /\ bpf_dev_map = KeysOf("this", cg_spec.installed) \cup KeysOf("other", cg_spec.others)
  /\ m_cgroup_bpf_devices = {}
  /\ m_bpf_attached_ = FALSE
  /\ cg_cpu_max = <<>>
  /\ cg_devices_deny = {}
  /\ IdleJM /\ IdleSpawn /\ IdleScan /\ IdleInit /\ IdleFwd /\ IdleEnv
  /\ IdleOut
  /\ IdleIn
  /\ IdleSync
  /\ IdleKeys
  /\ IdleEnd
  /\ IdleBpf

\* CreateOrOpen_: a handle of the configured version, or nullptr when a
\* controller cannot be initialized or the cgroup cannot be created, or (V2)
\* when the cgroup was created and stat() of its directory failed.
CreateOrOpen_ ==
  /\ cg_pc = "start"
  /\ \E out \in {"handle", "no_handle", "created_no_handle"} :
       /\ out = "created_no_handle" => cg_spec.version = "V2"
       /\ cg_unique_ptr' = IF out = "handle" THEN cg_spec.version ELSE "null"
       /\ cg_dir' = (cg_dir \/ out # "no_handle")
  /\ cg_pc' = "opened"
  /\ UNCHANGED <<cg_spec, cg_ret, cg_done, cg_failed, bpf_dev_map,
                 m_cgroup_bpf_devices, m_bpf_attached_, cg_cpu_max,
                 cg_devices_deny>>
  /\ UNCHANGED notCg

\* if (recover): with CRANE_ENABLE_BPF and V2, RecoverFromCgSpec is called on
\* the handle, also when the handle is nullptr; that call is undefined
\* behaviour, which either crashes or (returning at the Valid() test, before
\* it reads a member) comes back.  The handle is returned as it is.
\* RecoverFromCgSpec fails (recover_ok is FALSE) when BPF is not valid or the
\* cgroup cannot be opened.
RecoverBranch ==
  /\ cg_pc = "opened"
  /\ cg_spec.recovered
  /\ IF cg_spec.bpf /\ cg_spec.version = "V2"
     THEN IF cg_unique_ptr = "null"
          THEN /\ \E o \in {"crashed", "returned"} : cg_pc' = o
               /\ cg_ret' = IF cg_pc' = "returned" THEN "null" ELSE cg_ret
               /\ UNCHANGED <<cg_done, cg_failed, m_cgroup_bpf_devices,
                              m_bpf_attached_>>
          ELSE /\ \E recover_ok \in BOOLEAN :
                    /\ m_cgroup_bpf_devices' =
                         IF recover_ok
                         THEN m_cgroup_bpf_devices \cup RecoveredDevices(cg_spec)
                         ELSE m_cgroup_bpf_devices
                    /\ m_bpf_attached_' = (m_bpf_attached_ \/ recover_ok)
                    /\ cg_done' = IF recover_ok THEN cg_done \cup {"rebuild"}
                                  ELSE cg_done
                    /\ cg_failed' = IF recover_ok THEN cg_failed
                                    ELSE cg_failed \cup {"recover"}
               /\ cg_ret' = cg_unique_ptr
               /\ cg_pc' = "returned"
     ELSE /\ cg_ret' = cg_unique_ptr
          /\ cg_pc' = "returned"
          /\ UNCHANGED <<cg_done, cg_failed, m_cgroup_bpf_devices, m_bpf_attached_>>
  /\ UNCHANGED <<cg_spec, cg_unique_ptr, cg_dir, bpf_dev_map, cg_cpu_max,
                 cg_devices_deny>>
  /\ UNCHANGED notCg

\* if (g_config.Plugin.Enabled) CreateCgroupHookAsync(job_id,
\* cg_unique_ptr->GetCgroupString(), ...): the handle is dereferenced, a
\* nullptr crashes.
CreateCgroupHook ==
  /\ cg_pc = "opened"
  /\ ~cg_spec.recovered
  /\ IF cg_spec.plugin
     THEN IF cg_unique_ptr = "null"
          THEN cg_pc' = "crashed" /\ UNCHANGED cg_done
          ELSE cg_pc' = "hooked" /\ cg_done' = cg_done \cup {"hook"}
     ELSE cg_pc' = "hooked" /\ UNCHANGED cg_done
  /\ UNCHANGED <<cg_spec, cg_unique_ptr, cg_ret, cg_failed, cg_dir, bpf_dev_map,
                 m_cgroup_bpf_devices, m_bpf_attached_, cg_cpu_max,
                 cg_devices_deny>>
  /\ UNCHANGED notCg

AllocateOk_CpuOnly(failed) == "cpu" \notin failed

\* The result of AllocatableResourceAllocator::Allocate: ok of SetCpuCoreLimit,
\* and-ed with that of SetMemoryLimitBytes; the other two results are dropped.
AllocateOk(failed) == failed \cap {"cpu", "mem"} = {}

\* AllocatableResourceAllocator::Allocate(res, cg_unique_ptr.get()): the four
\* limit writes are all attempted (cg->SetCpuCoreLimit on a nullptr crashes);
\* only the CPU and the memory limit decide the result.  On failure
\* AllocateAndGetJobCgroup returns nullptr and the handle is destroyed.
AllocatableAllocate ==
  /\ cg_pc = "hooked"
  /\ IF cg_unique_ptr = "null"
     THEN /\ cg_pc' = "crashed"
          /\ UNCHANGED <<cg_done, cg_failed, cg_ret, cg_cpu_max>>
     ELSE \E failed \in SUBSET LimitWrites :
            /\ cg_done' = cg_done \cup LimitWrites
            /\ cg_failed' = failed
            /\ cg_cpu_max' = IF cg_unique_ptr = "V1"
                             THEN CpuCoreLimitV1(cg_spec.cores)
                             ELSE CpuCoreLimitV2(cg_spec.cores)
            /\ IF AllocateOk(failed)
               THEN cg_pc' = "allocated" /\ UNCHANGED cg_ret
               ELSE cg_pc' = "destroy" /\ cg_ret' = "null"
  /\ UNCHANGED <<cg_spec, cg_unique_ptr, cg_dir, bpf_dev_map,
                 m_cgroup_bpf_devices, m_bpf_attached_, cg_devices_deny>>
  /\ UNCHANGED notCg

\* The first devices of ds, in the order of the vector, before position stop.
Before(ds, stop) == {d \in ds : d < stop}

\* The positions at which a loop over the devices ds can be made to fail:
\* at one of the devices, or nowhere (MaxDev + 1).
Stops(ds) == ds \cup {MaxDev + 1}

\* DedicatedResourceAllocator::Allocate: SetDeviceAccess, whose result is
\* only logged.  V1 writes the denied devices to devices.deny when there is
\* one.  V2 with BPF appends the denied devices to m_cgroup_bpf_devices,
\* updates the map entry by entry (an update may fail: position stop) and then
\* attaches the program unless it is attached; V2 without BPF does nothing.
DedicatedAllocate ==
  /\ cg_pc = "allocated"
  /\ LET denied == DeniedDevices(cg_spec.node, cg_spec.request) IN
     IF cg_unique_ptr = "V1"
     THEN /\ cg_done' = IF denied # {} THEN cg_done \cup {"deny"} ELSE cg_done
          /\ \E ok \in BOOLEAN :
               /\ cg_failed' = IF denied # {} /\ ~ok
                               THEN cg_failed \cup {"deny"} ELSE cg_failed
               /\ cg_devices_deny' = IF ok THEN denied ELSE {}
          /\ UNCHANGED <<bpf_dev_map, m_cgroup_bpf_devices, m_bpf_attached_>>
     ELSE IF cg_spec.bpf
     THEN /\ \E opened \in BOOLEAN, attach_ok \in BOOLEAN :
            IF ~opened
            THEN /\ cg_failed' = cg_failed \cup {"deny"}
                 /\ UNCHANGED <<cg_done, bpf_dev_map, m_cgroup_bpf_devices,
                                m_bpf_attached_>>
            ELSE LET devices == m_cgroup_bpf_devices \cup denied IN
                 \E stop \in Stops(devices) :
                 LET updated == Before(devices, stop) = devices
                     attach  == updated /\ ~m_bpf_attached_
                 IN /\ m_cgroup_bpf_devices' = devices
                    /\ bpf_dev_map' = bpf_dev_map
                                        \cup KeysOf("this", Before(devices, stop))
                    /\ m_bpf_attached_' = (m_bpf_attached_ \/ (attach /\ attach_ok))
                    /\ cg_done' = cg_done
                                    \cup (IF devices # {} THEN {"deny"} ELSE {})
                                    \cup (IF attach THEN {"attach"} ELSE {})
                    /\ cg_failed' = cg_failed
                                    \cup (IF ~updated THEN {"deny"} ELSE {})
                                    \cup (IF attach /\ ~attach_ok THEN {"attach"} ELSE {})
          /\ UNCHANGED cg_devices_deny
     ELSE UNCHANGED <<cg_done, cg_failed, bpf_dev_map, m_cgroup_bpf_devices,
                      m_bpf_attached_, cg_devices_deny>>
  /\ cg_ret' = cg_unique_ptr
  /\ cg_pc' = "returned"
  /\ UNCHANGED <<cg_spec, cg_unique_ptr, cg_dir, cg_cpu_max>>
  /\ UNCHANGED notCg

\* The handle is destroyed (the caller drops the one it was given, or
\* AllocateAndGetJobCgroup drops it on failure).  CgroupV2::~CgroupV2 begins
\* with m_cgroup_info_.~Cgroup(), as the destructor of a CgroupV1 does:
\* cgroup_delete_cgroup_ext removes the directory, unless it fails.
DestroyCgroup ==
  /\ \/ cg_pc = "destroy"
     \/ cg_pc = "returned" /\ cg_ret \in {"V1", "V2"}
  /\ \E removed \in BOOLEAN : cg_dir' = (cg_dir /\ ~removed)
  /\ cg_pc' = IF cg_unique_ptr = "V2" /\ cg_spec.bpf THEN "erase" ELSE "dropped"
  /\ UNCHANGED <<cg_spec, cg_unique_ptr, cg_ret, cg_done, cg_failed, bpf_dev_map,
                 m_cgroup_bpf_devices, m_bpf_attached_, cg_cpu_max,
                 cg_devices_deny>>
  /\ UNCHANGED notCg

\* The position at which EraseBpfDeviceMap stops: at the failure the
\* environment causes (stop), or before, at the first key that is not in the
\* map, for which bpf_map__delete_elem fails.
EraseStop(map, cgroup_id, ds, stop) ==
  LET absent == {d \in ds : <<cgroup_id, d>> \notin map /\ d < stop}
  IN IF absent = {} THEN stop
     ELSE CHOOSE d \in absent : \A e \in absent : d <= e

EraseBpfDeviceMap_ByDevice(map, cgroup_id, ds, stop) ==
  {e \in map : e[2] \notin Before(ds, EraseStop(map, cgroup_id, ds, stop))}

\* CgroupV2::EraseBpfDeviceMap: deletes the keys {m_cgroup_id, major, minor}
\* of m_cgroup_bpf_devices one by one and returns at the first deletion that
\* fails.
EraseBpfDeviceMap(map, cgroup_id, ds, stop) ==
  map \ KeysOf(cgroup_id, Before(ds, EraseStop(map, cgroup_id, ds, stop)))

\* The rest of CgroupV2::~CgroupV2 with CRANE_ENABLE_BPF: EraseBpfDeviceMap
\* when m_cgroup_bpf_devices is not empty.  Nothing is erased when BPF is not
\* valid; "erase" is recorded as failed when BPF is not valid or the
\* environment makes a deletion fail.
EraseStep ==
  /\ cg_pc = "erase"
  /\ \E valid \in BOOLEAN, stop \in Stops(m_cgroup_bpf_devices) :
       /\ bpf_dev_map' =
            IF m_cgroup_bpf_devices # {} /\ valid
            THEN EraseBpfDeviceMap(bpf_dev_map, "this", m_cgroup_bpf_devices, stop)
            ELSE bpf_dev_map
       /\ LET at == EraseStop(bpf_dev_map, "this", m_cgroup_bpf_devices, stop)
              env_failed == ~valid \/ (at = stop /\ stop \in m_cgroup_bpf_devices)
          IN cg_failed' = IF m_cgroup_bpf_devices # {} /\ env_failed
                          THEN cg_failed \cup {"erase"} ELSE cg_failed
  /\ cg_done' = IF m_cgroup_bpf_devices # {} THEN cg_done \cup {"erase"} ELSE cg_done
  /\ cg_pc' = "dropped"
  /\ UNCHANGED <<cg_spec, cg_unique_ptr, cg_ret, cg_dir,
                 m_cgroup_bpf_devices, m_bpf_attached_, cg_cpu_max,
                 cg_devices_deny>>
  /\ UNCHANGED notCg

NextCg ==
  \/ CreateOrOpen_
  \/ RecoverBranch
  \/ CreateCgroupHook
  \/ AllocatableAllocate
  \/ DedicatedAllocate
  \/ DestroyCgroup
  \/ EraseStep

\* ---------------------------------------------------------------------------
\* The BPF runtime (BpfRuntimeInfo) shared by the CgroupV2 handles: handles
\* are created and destroyed, and the recovery scan enumerates the map.
\* ---------------------------------------------------------------------------

notBpf == <<jmVars, spVars, scanVars, initVars, fwdVars, envVars, cgVars,
    endVars,
    outVars,
    inVars,
    syncVars,
    keyVars>>

InitBpf ==
  /\ IdleBpf
  /\ IdleJM /\ IdleSpawn /\ IdleScan /\ IdleInit /\ IdleFwd /\ IdleEnv
  /\ IdleOut
  /\ IdleIn
  /\ IdleSync
  /\ IdleKeys
  /\ IdleEnd
  /\ IdleCg

\* BpfRuntimeInfo::Valid(): the object is open with its program and map.
Valid == bpf_obj_

\* BpfRuntimeInfo::InitializeBpfObj: with no reference yet the object is
\* opened and loaded, which can fail (load_ok); a failure returns false
\* before the count is incremented.  rt is [count, obj]; the result adds ok.
InitializeBpfObj(rt, load_ok) ==
  IF rt.count = 0 /\ ~load_ok
  THEN [count |-> rt.count, obj |-> rt.obj, ok |-> FALSE]
  ELSE [count |-> rt.count + 1, obj |-> TRUE, ok |-> TRUE]

\* BpfRuntimeInfo::CloseBpfObj: if (Valid() && --cgroup_count_ == 0) the
\* object is closed.
CloseBpfObj(rt) ==
  IF rt.obj
  THEN [count |-> rt.count - 1, obj |-> rt.count - 1 # 0]
  ELSE [count |-> rt.count, obj |-> rt.obj]

\* CgroupV2::CgroupV2: InitializeBpfObj, whose result is only logged.
CgroupV2Ctor ==
  /\ Len(bpf_handles) < MaxHandles
  /\ \E load_ok \in BOOLEAN :
       LET rt == InitializeBpfObj([count |-> cgroup_count_, obj |-> bpf_obj_],
                                  load_ok)
       IN /\ cgroup_count_' = rt.count
          /\ bpf_obj_' = rt.obj
          /\ bpf_handles' = Append(bpf_handles, IF rt.ok THEN "ref" ELSE "noref")
  /\ UNCHANGED bpf_scans
  /\ UNCHANGED notBpf

\* CgroupV2::~CgroupV2: CloseBpfObj, whatever the constructor's
\* InitializeBpfObj returned.
CgroupV2Dtor ==
  /\ \E h \in DOMAIN bpf_handles :
       /\ bpf_handles[h] # "dropped"
       /\ bpf_handles' = [bpf_handles EXCEPT ![h] = "dropped"]
  /\ LET rt == CloseBpfObj([count |-> cgroup_count_, obj |-> bpf_obj_])
     IN cgroup_count_' = rt.count /\ bpf_obj_' = rt.obj
  /\ UNCHANGED bpf_scans
  /\ UNCHANGED notBpf

\* CgroupManager::GetJobBpfMapCgroupsV2: init_ebpf = !Valid(); if
\* (!init_ebpf) InitializeBpfObj(); the map is enumerated; if (init_ebpf)
\* CloseBpfObj().
GetJobBpfMapCgroupsV2 ==
  /\ bpf_scans < MaxBpfScans
  /\ bpf_scans' = bpf_scans + 1
  /\ \E load_ok \in BOOLEAN :
       LET init_ebpf == ~Valid
           rt0 == [count |-> cgroup_count_, obj |-> bpf_obj_]
           rt1 == IF ~init_ebpf THEN InitializeBpfObj(rt0, load_ok) ELSE rt0
           rt2 == IF init_ebpf
                  THEN CloseBpfObj([count |-> rt1.count, obj |-> rt1.obj])
                  ELSE rt1
       IN cgroup_count_' = rt2.count /\ bpf_obj_' = rt2.obj
  /\ UNCHANGED bpf_handles
  /\ UNCHANGED notBpf

NextBpf ==
  \/ CgroupV2Ctor
  \/ CgroupV2Dtor
  \/ GetJobBpfMapCgroupsV2

\* ---------------------------------------------------------------------------
\* The agent's shutdown: SIGINT, the idle handler of the Job Manager loop, and
\* the execute requests that arrive meanwhile.
\* ---------------------------------------------------------------------------

notEnd == <<jmVars, spVars, scanVars, initVars, fwdVars, envVars, cgVars, bpfVars,
    outVars,
    inVars,
    syncVars,
    keyVars>>

InitEnd ==
  /\ IdleEnd
  /\ IdleJM /\ IdleSpawn /\ IdleScan /\ IdleInit /\ IdleFwd /\ IdleEnv
  /\ IdleOut
  /\ IdleIn
  /\ IdleSync
  /\ IdleKeys
  /\ IdleCg
  /\ IdleBpf

\* The signal handle of the loop delivers SIGINT: EvSigintCb_ sets
\* m_is_ending_now_ and does nothing else (m_sigint_cb_, which
\* SetSigintCallback stored, is not called).
EvSigintCb_ ==
  /\ m_uvw_loop_running
  /\ ~m_is_ending_now_
  /\ m_is_ending_now_' = TRUE
  /\ UNCHANGED <<m_uvw_loop_running, g_server_shutdown>>
  /\ UNCHANGED notEnd

\* The idle handler of the loop: if (m_is_ending_now_) every handle is closed
\* and the loop is stopped.
JobMgrIdleCb ==
  /\ m_uvw_loop_running
  /\ m_is_ending_now_
  /\ m_uvw_loop_running' = FALSE
  /\ UNCHANGED <<m_is_ending_now_, g_server_shutdown>>
  /\ UNCHANGED notEnd

\* StartServer after GlobalVariableInit: g_server->Wait() returns once the
\* server was shut down, g_job_mgr->Wait() joins the loop thread, and the
\* process ends with std::exit(0).
AgentExited == g_server_shutdown /\ ~m_uvw_loop_running

\* The callbacks of the loop run while the loop runs; the RPC threads and the
\* thread pool run beside it.
NextEnd ==
  \/ EvSigintCb_
  \/ JobMgrIdleCb
  \/ ExecuteTaskAsync
  \/ (m_uvw_loop_running /\ EvCleanGrpcExecuteTaskQueueCb_)
  \/ LaunchTaskInstanceMt_
  \/ LaunchRegisterPid

\* ------------------------------------- forwarding of one child's output
\* CforedClient::SetUpTaskFwd and its poll callback on the child's output
\* fd, TaskOutputFinish, TaskProcessStop and TaskEnd, for one child pid.
notOut == <<jmVars, spVars, scanVars, initVars, fwdVars, envVars, cgVars,
            bpfVars, endVars,
    inVars,
    syncVars,
    keyVars>>

\* SetUpTaskFwd has started the poll handle; the meta is not in
\* m_fwd_meta_map yet.
InitOut ==
  /\ out_pty \in BOOLEAN
  /\ out_pending = 0
  /\ out_writer_open = TRUE
  /\ poll_active = TRUE
  /\ out_fd_open = TRUE
  /\ out_chunks = <<>>
  /\ out_last = <<>>
  /\ m_fwd_meta_map = <<>>
  /\ fm_registered = FALSE
  /\ proc_pc = "running"
  /\ h_finish_ret = <<>>
  /\ h_stop_ret = <<>>
  /\ n_task_end = 0
  /\ IdleJM
  /\ IdleSpawn
  /\ IdleScan
  /\ IdleInit
  /\ IdleFwd
  /\ IdleEnv
  /\ IdleCg
  /\ IdleBpf
  /\ IdleEnd
  /\ IdleIn
  /\ IdleSync
  /\ IdleKeys

\* A value-initialized TaskFwdMeta, as m_fwd_meta_map[pid] creates it.
NoMeta == [input_stopped |-> FALSE, output_stopped |-> FALSE, proc_stopped |-> FALSE]

\* m_fwd_meta_map[pid]: the entry, created if it is not there.
MetaOf(map) == IF map = <<>> THEN NoMeta ELSE map

\* SetUpTaskFwd, after the start of the poll handle: m_fwd_meta_map[pid] =
\* meta, under the mutex.  The meta is the one built at the start of the
\* function: none of its flags is set.
SetUpTaskFwdStore ==
  /\ ~fm_registered
  /\ fm_registered' = TRUE
  /\ m_fwd_meta_map' = NoMeta
  /\ UNCHANGED <<out_pty, out_pending, out_writer_open, poll_active, out_fd_open,
                 out_chunks, out_last, proc_pc, h_finish_ret, h_stop_ret, n_task_end>>
  /\ UNCHANGED notOut

\* The child writes a byte to its output.
ChildWritesOutput ==
  /\ out_writer_open
  /\ out_pending < MaxPending
  /\ out_pending' = out_pending + 1
  /\ UNCHANGED <<out_pty, out_writer_open, poll_active, out_fd_open, out_chunks,
                 out_last, m_fwd_meta_map, fm_registered, proc_pc, h_finish_ret,
                 h_stop_ret, n_task_end>>
  /\ UNCHANGED notOut

\* The child exits: its end of the output fd is closed.
ChildExits ==
  /\ proc_pc = "running"
  /\ proc_pc' = "exited"
  /\ out_writer_open' = FALSE
  /\ UNCHANGED <<out_pty, out_pending, poll_active, out_fd_open, out_chunks,
                 out_last, m_fwd_meta_map, fm_registered, h_finish_ret, h_stop_ret,
                 n_task_end>>
  /\ UNCHANGED notOut

Min(a, b) == IF a < b THEN a ELSE b

\* What read(meta.output_fd, buf, MAX_BUF_SIZE) may return: bytes that are
\* there, up to the size of the buffer; the end of the output once the child
\* has closed its end (0, or on a pty -1 with EIO); nothing on a pty; -1 with
\* EAGAIN while nothing is there; -1 with EIO or another errno at any time.
ReadResults(pty, pending, writer_open) ==
  (IF pending > 0
   THEN {[ret |-> Min(pending, MaxBufSize), errno |-> "none"]}
   ELSE {[ret |-> -1, errno |-> "EAGAIN"]}
          \cup (IF pty THEN {[ret |-> 0, errno |-> "none"]} ELSE {})
          \cup (IF ~writer_open
                THEN {IF pty THEN [ret |-> -1, errno |-> "EIO"]
                             ELSE [ret |-> 0, errno |-> "none"]}
                ELSE {}))
  \cup {[ret |-> -1, errno |-> "EIO"], [ret |-> -1, errno |-> "EOTHER"]}

\* The poll callback up to "if (read_finished)": what it does with the result
\* of read.
PollOutcome(pty, r) ==
  IF r.ret = 0 /\ ~pty THEN "finished"
  ELSE IF r.ret = -1
       THEN (IF ~pty THEN "return"
             ELSE IF r.errno = "EIO" THEN "finished"
             ELSE "return")
  ELSE "forward"

\* The poll callback of the output fd (event loop thread).
PollEvent ==
  /\ poll_active
  /\ \E r \in ReadResults(out_pty, out_pending, out_writer_open) :
       LET outcome == PollOutcome(out_pty, r) IN
       /\ outcome = "forward" => Len(out_chunks) < MaxOutChunks
       /\ out_last' = r
       /\ out_pending' = IF r.ret > 0 THEN out_pending - r.ret ELSE out_pending
       /\ CASE outcome = "finished" ->
                 \* h.close(); close(meta.output_fd); TaskOutputFinish; TaskEnd
                 /\ poll_active' = FALSE
                 /\ out_fd_open' = FALSE
                 /\ m_fwd_meta_map' =
                      [MetaOf(m_fwd_meta_map) EXCEPT !.output_stopped = TRUE]
                 /\ h_finish_ret' =
                      Append(h_finish_ret, MetaOf(m_fwd_meta_map).proc_stopped)
                 /\ n_task_end' = IF MetaOf(m_fwd_meta_map).proc_stopped
                                  THEN n_task_end + 1 ELSE n_task_end
                 /\ UNCHANGED out_chunks
            [] outcome = "return" ->
                 UNCHANGED <<poll_active, out_fd_open, m_fwd_meta_map, h_finish_ret,
                             n_task_end, out_chunks>>
            [] outcome = "forward" ->
                 /\ out_chunks' = Append(out_chunks, r.ret)
                 /\ UNCHANGED <<poll_active, out_fd_open, m_fwd_meta_map,
                                h_finish_ret, n_task_end>>
  /\ UNCHANGED <<out_pty, out_writer_open, fm_registered, proc_pc, h_stop_ret>>
  /\ UNCHANGED notOut

\* The child was reaped: TaskProcessStop(pid) is called, and TaskEnd(pid) if
\* it returns true.
TaskProcessStop ==
  /\ proc_pc = "exited"
  /\ proc_pc' = "stop_called"
  /\ m_fwd_meta_map' = [MetaOf(m_fwd_meta_map) EXCEPT !.proc_stopped = TRUE]
  /\ h_stop_ret' = Append(h_stop_ret, MetaOf(m_fwd_meta_map).output_stopped)
  /\ n_task_end' = IF MetaOf(m_fwd_meta_map).output_stopped
                   THEN n_task_end + 1 ELSE n_task_end
  /\ UNCHANGED <<out_pty, out_pending, out_writer_open, poll_active, out_fd_open,
                 out_chunks, out_last, fm_registered, h_finish_ret>>
  /\ UNCHANGED notOut

NextOut ==
  \/ SetUpTaskFwdStore
  \/ ChildWritesOutput
  \/ ChildExits
  \/ PollEvent
  \/ TaskProcessStop

\* --------------------------------------- forwarding of input to children
\* The Forwarding case of AsyncSendRecvThread_ for a TASK_INPUT reply, and
\* TaskInputNoLock_, over the children registered in m_fwd_meta_map.
notIn == <<jmVars, spVars, scanVars, initVars, fwdVars, envVars, cgVars,
           bpfVars, endVars, outVars,
    syncVars,
    keyVars>>

Pids == 1..MaxChildren

InitIn ==
  /\ in_registered = {}
  /\ in_stopped = {}
  /\ in_got = [p \in Pids |-> <<>>]
  /\ in_since = [p \in Pids |-> 0]
  /\ in_failed = [p \in Pids |-> 0]
  /\ in_sizes = <<>>
  /\ n_stream_read = 0
  /\ IdleJM
  /\ IdleSpawn
  /\ IdleScan
  /\ IdleInit
  /\ IdleFwd
  /\ IdleEnv
  /\ IdleCg
  /\ IdleBpf
  /\ IdleEnd
  /\ IdleOut
  /\ IdleSync
  /\ IdleKeys

\* SetUpTaskFwd(pid, ...): the child gets its entry in m_fwd_meta_map.
SetUpTaskFwd ==
  \E p \in Pids \ in_registered :
    /\ in_registered' = in_registered \cup {p}
    /\ in_since' = [in_since EXCEPT ![p] = Len(in_sizes)]
    /\ UNCHANGED <<in_stopped, in_got, in_failed, in_sizes, n_stream_read>>
    /\ UNCHANGED notIn

RECURSIVE SumOf(_, _)
SumOf(r, n) == IF n = 0 THEN 0 ELSE r[n] + SumOf(r, n - 1)

\* What the calls of write(fd, ...) for one message of the given size may
\* return, one after the other: positive counts, never more than what is
\* left to write, up to the whole message or up to a first -1.
WriteScripts(size) ==
  {r \in UNION {[1..n -> {-1} \cup (1..size)] : n \in 0..size} :
     LET n == Len(r) IN
     /\ \A i \in 1..(n - 1) : r[i] > 0
     /\ IF n = 0 THEN size = 0
        ELSE IF r[n] = -1 THEN SumOf(r, n - 1) < size
        ELSE SumOf(r, n) = size}

\* Mutant of TaskInputNoLock_: write is called once, a partial write is not
\* retried.
TaskInputNoLock_NoRetry(sz_sent, size, rets) ==
  IF sz_sent = size THEN [ok |-> TRUE, sent |-> sz_sent]
  ELSE IF Head(rets) < 0 THEN [ok |-> FALSE, sent |-> sz_sent]
  ELSE [ok |-> TRUE, sent |-> sz_sent + Head(rets)]

\* TaskInputNoLock_(msg, fd): write until the whole message is sent; a
\* negative return of write ends the loop with false.
RECURSIVE TaskInputNoLock_(_, _, _)
TaskInputNoLock_(sz_sent, size, rets) ==
  IF sz_sent = size THEN [ok |-> TRUE, sent |-> sz_sent]
  ELSE IF Head(rets) < 0 THEN [ok |-> FALSE, sent |-> sz_sent]
  ELSE TaskInputNoLock_(sz_sent + Head(rets), size, Tail(rets))

\* Stream thread, state Forwarding, a read completion with a TASK_INPUT
\* reply: the message is written to every registered child whose input is
\* not stopped, a failed child is flagged, and the next read is issued.
ForwardTaskInput ==
  /\ Len(in_sizes) < MaxTaskInput
  /\ \E size \in 0..MaxMsgSize :
       \E rets \in [in_registered \ in_stopped -> WriteScripts(size)] :
         LET msg == Len(in_sizes) + 1
             res == [p \in in_registered \ in_stopped |->
                       TaskInputNoLock_(0, size, rets[p])]
             failed == {p \in in_registered \ in_stopped : ~res[p].ok}
         IN /\ in_sizes' = Append(in_sizes, size)
            /\ in_got' = [p \in Pids |->
                            IF p \in in_registered \ in_stopped
                            THEN Append(in_got[p], [msg |-> msg, bytes |-> res[p].sent])
                            ELSE in_got[p]]
            /\ in_stopped' = in_stopped \cup failed
            /\ in_failed' = [p \in Pids |-> IF p \in failed THEN msg ELSE in_failed[p]]
  /\ n_stream_read' = n_stream_read + 1
  /\ UNCHANGED <<in_registered, in_since>>
  /\ UNCHANGED notIn

NextIn ==
  \/ SetUpTaskFwd
  \/ ForwardTaskInput

\* -------------------------------- synchronous requests across the loops
\* QueryTaskIdFromPidAsync, QueryTaskEnvMapAsync, CheckTaskStatusAsync and
\* ChangeTaskTimeLimitAsync with the async handles of the Job Manager's loop:
\* which queue a request goes to, which handle it wakes, which queue the
\* callback of a handle drains.
notSync == <<jmVars, spVars, scanVars, initVars, fwdVars, envVars, cgVars,
             bpfVars, endVars, outVars, inVars,
    keyVars>>

SyncKinds == {"QueryTaskIdFromPid", "QueryTaskEnvMap", "CheckTaskStatus",
              "ChangeTaskTimeLimit"}

InitSync ==
  /\ sync_queue = [k \in SyncKinds |-> <<>>]
  /\ async_pending = {}
  /\ sync_fulfilled = [i \in 1..MaxSyncReq |-> 0]
  /\ n_sreq = 0
  /\ IdleJM
  /\ IdleSpawn
  /\ IdleScan
  /\ IdleInit
  /\ IdleFwd
  /\ IdleEnv
  /\ IdleCg
  /\ IdleBpf
  /\ IdleEnd
  /\ IdleOut
  /\ IdleIn
  /\ IdleKeys

\* The async handle whose send() follows the enqueue of a request.
HandleSentBy(kind) ==
  CASE kind = "QueryTaskIdFromPid"  -> "m_query_task_environment_variables_async_handle_"
    [] kind = "QueryTaskEnvMap"     -> "m_query_task_environment_variables_async_handle_"
    [] kind = "CheckTaskStatus"     -> "m_check_task_status_async_handle_"
    [] kind = "ChangeTaskTimeLimit" -> "m_change_task_time_limit_async_handle_"

\* The queue the callback of an async handle drains.
QueueDrainedBy(handle) ==
  CASE handle = "m_query_task_id_from_pid_async_handle_" -> "QueryTaskIdFromPid"
    [] handle = "m_query_task_environment_variables_async_handle_" -> "QueryTaskEnvMap"
    [] handle = "m_check_task_status_async_handle_" -> "CheckTaskStatus"
    [] handle = "m_change_task_time_limit_async_handle_" -> "ChangeTaskTimeLimit"

\* A caller (RPC thread) makes a request: the element with its promise is
\* enqueued, a handle is sent, the caller blocks on the future.
SyncRequestAsync ==
  /\ n_sreq < MaxSyncReq
  /\ n_sreq' = n_sreq + 1
  /\ \E kind \in SyncKinds :
       /\ sync_queue' = [sync_queue EXCEPT ![kind] = Append(@, n_sreq + 1)]
       /\ async_pending' = async_pending \cup {HandleSentBy(kind)}
  /\ UNCHANGED sync_fulfilled
  /\ UNCHANGED notSync

\* The loop runs the callback of a handle that was sent: it dequeues every
\* element of its queue and sets the value of its promise.
EvCleanSyncQueueCb_ ==
  \E handle \in async_pending :
    LET q == sync_queue[QueueDrainedBy(handle)] IN
    /\ async_pending' = async_pending \ {handle}
    /\ sync_queue' = [sync_queue EXCEPT ![QueueDrainedBy(handle)] = <<>>]
    /\ sync_fulfilled' = [i \in 1..MaxSyncReq |->
                            IF \E k \in 1..Len(q) : q[k] = i
                            THEN sync_fulfilled[i] + 1 ELSE sync_fulfilled[i]]
    /\ UNCHANGED n_sreq
    /\ UNCHANGED notSync

NextSync ==
  \/ SyncRequestAsync
  \/ EvCleanSyncQueueCb_

\* ------------------------------------- enumeration of the BPF map's keys
\* The loop over bpf_map__get_next_key in ~CgroupManager and in
\* GetJobBpfMapCgroupsV2, with the BPF object valid.
notKeys == <<jmVars, spVars, scanVars, initVars, fwdVars, envVars, cgVars,
             bpfVars, endVars, outVars, inVars, syncVars>>

\* The keys a valid map may hold: key 0, the all-zero key InitializeBpfObj
\* puts in for the log level, and the device keys 1..MaxJobKeys of jobs.
MapKeys == 0..MaxJobKeys

\* The orders in which a map may iterate over its keys.
KeyOrders ==
  {o \in UNION {[1..n -> MapKeys] : n \in 1..(MaxJobKeys + 1)} :
     /\ \E i \in 1..Len(o) : o[i] = 0
     /\ \A i, j \in 1..Len(o) : i # j => o[i] # o[j]}

InitKeys ==
  /\ key_order \in KeyOrders
  /\ key_caller \in {"dtor", "scan"}
  /\ key_pc = "first"
  /\ pre_key = 0
  /\ bpf_map_count = 0
  /\ key_results = <<>>
  /\ rm_bpf_map = FALSE
  /\ IdleJM
  /\ IdleSpawn
  /\ IdleScan
  /\ IdleInit
  /\ IdleFwd
  /\ IdleEnv
  /\ IdleCg
  /\ IdleBpf
  /\ IdleEnd
  /\ IdleOut
  /\ IdleIn
  /\ IdleSync

\* bpf_map__get_next_key(map, key, next_key): the first key when key is
\* null (has_key false) or not in the map, the key after key otherwise; the
\* return value is 0, or -ENOENT (-2) when there is no such key.
GetNextKey(order, has_key, key) ==
  LET at == {i \in 1..Len(order) : has_key /\ order[i] = key} IN
  IF at = {}
  THEN (IF order = <<>> THEN [ret |-> -2, key |-> key]
        ELSE [ret |-> 0, key |-> order[1]])
  ELSE LET i == CHOOSE i \in at : TRUE
       IN IF i = Len(order) THEN [ret |-> -2, key |-> key]
          ELSE [ret |-> 0, key |-> order[i + 1]]

\* The first call, with a null key, fills *pre_key; the key is counted (and
\* in the scan given to add_task) whatever the call returned.
EnumerateFirstKey ==
  /\ key_pc = "first"
  /\ LET r == GetNextKey(key_order, FALSE, 0) IN
     /\ pre_key' = IF r.ret = 0 THEN r.key ELSE pre_key
     /\ key_results' = IF key_caller = "scan" THEN <<pre_key'>> ELSE key_results
  /\ bpf_map_count' = bpf_map_count + 1
  /\ key_pc' = "while"
  /\ UNCHANGED <<key_order, key_caller, rm_bpf_map>>
  /\ UNCHANGED notKeys

\* One test of "while (bpf_map__get_next_key(map, pre_key, cur_key, ...) ==
\* 0)": the call is made with *pre_key, which the loop never changes.  When
\* the loop ends, ~CgroupManager removes the map if it has counted one key.
EnumerateNextKey ==
  /\ key_pc = "while"
  /\ LET r == GetNextKey(key_order, TRUE, pre_key) IN
     IF r.ret # 0
     THEN /\ key_pc' = "done"
          /\ rm_bpf_map' = (key_caller = "dtor" /\ bpf_map_count = 1)
          /\ UNCHANGED <<bpf_map_count, key_results>>
     ELSE /\ bpf_map_count < MaxKeyCount
          /\ bpf_map_count' = bpf_map_count + 1
          /\ key_results' = IF key_caller = "scan" THEN Append(key_results, r.key)
                            ELSE key_results
          /\ UNCHANGED <<key_pc, rm_bpf_map>>
  /\ UNCHANGED <<key_order, key_caller, pre_key>>
  /\ UNCHANGED notKeys

NextKeys ==
  \/ EnumerateFirstKey
  \/ EnumerateNextKey

\* ---------------------------------------------------------- specifications
vars == <<jmVars, spVars, scanVars, initVars, fwdVars, envVars, cgVars,
    bpfVars,
    endVars,
    outVars,
    inVars,
    syncVars,
    keyVars>>

SpecJM == InitJM /\ [][NextJM]_vars

SpecOut == InitOut /\ [][NextOut]_vars

SpecIn == InitIn /\ [][NextIn]_vars

SpecKeys == InitKeys /\ [][NextKeys]_vars

SpecSync == InitSync /\ [][NextSync]_vars

\* The loop is running: a handle that was sent gets its callback.
FairSpecSync == SpecSync /\ WF_vars(EvCleanSyncQueueCb_)

SpecSpawn == InitSpawn /\ [][NextSpawn]_vars

SpecScan == InitScan /\ [][NextScan]_vars

\* The thread of the scan keeps running: an iteration that changes the state
\* is taken.
FairSpecScan == SpecScan /\ WF_vars(NextScan)

SpecInit == InitInit /\ [][NextInit]_vars

SpecFwd == InitFwd /\ [][NextFwd]_vars

SpecEnv == InitEnv /\ [][NextEnv]_vars

SpecCg == InitCg /\ [][NextCg]_vars

SpecBpf == InitBpf /\ [][NextBpf]_vars

SpecEnd == InitEnd /\ [][NextEnd]_vars

\* The loop thread keeps running its handlers, the thread pool its tasks.
FairSpecEnd ==
  /\ SpecEnd
  /\ WF_vars(JobMgrIdleCb)
  /\ WF_vars(m_uvw_loop_running /\ EvCleanGrpcExecuteTaskQueueCb_)
  /\ WF_vars(LaunchTaskInstanceMt_)
  /\ WF_vars(LaunchRegisterPid)

\* Every thread of the client keeps running, gRPC completes what was started
\* and FANOUT answers.  The child may stay silent, the stop flag may never be
\* set and the connection need not fail.
FairSpecFwd ==
  /\ SpecFwd
  /\ WF_vars(StreamTimeout)
  /\ WF_vars(StreamTimeoutJoined)
  /\ WF_vars(StreamGotEvent)
  /\ WF_vars(StreamEndJoined)
  /\ WF_vars(WriterTryDequeue)
  /\ WF_vars(WriterWhile)
  /\ WF_vars(WriterWrite)
  /\ WF_vars(IdleEvent)
  /\ WF_vars(GrpcWriteDone)
  /\ WF_vars(GrpcReadDone)

\* The loop runs every callback whose queue was woken, the pool runs every
\* detached launch, and an armed timer fires.  A child may run for ever.
FairSpecJM ==
  /\ SpecJM
  /\ WF_vars(EvCleanGrpcExecuteTaskQueueCb_)
  /\ WF_vars(EvCleanTaskStatusChangeQueueCb_)
  /\ WF_vars(EvCleanTerminateTaskQueueCb_)
  /\ WF_vars(LaunchTaskInstanceMt_)
  /\ WF_vars(LaunchRegisterPid)
  /\ WF_vars(EvTaskTimerCb_)
  /\ WF_vars(EvCleanCheckTaskStatusQueueCb_)
  /\ WF_vars(EvCleanChangeTaskTimeLimitQueueCb_)
  /\ WF_vars(CtldSendStatusChange)

\* ------------------------------------------------------------------ claims
Handed(task_id, gen) ==
  { i \in 1..Len(ctld_status_changes) :
      ctld_status_changes[i].task_id = task_id /\ ctld_status_changes[i].gen = gen }

\* C1: for every instance that entered the task map, at most one status
\* change is handed to the controller client, and the instance it was handed
\* for is no longer in the task map (so every later status change for the id
\* finds no instance).
C1_OneStatusChangePerInstance ==
  \A task_id \in Jobs, gen \in 1..MaxExec :
    /\ Cardinality(Handed(task_id, gen)) <= 1
    /\ Handed(task_id, gen) # {} =>
         ~(task_id \in DOMAIN m_task_map_ /\ m_task_map_[task_id].gen = gen)

\* C1 witness: a status change for a job was handed over and a later one for
\* the same job was dropped.
C1_Witness ==
  \E task_id \in h_dropped :
    \E i \in 1..Len(ctld_status_changes) : ctld_status_changes[i].task_id = task_id

\* C3 (as claimed, read in the code's favour): once the recovery scan has run
\* with the surviving-job set S and no removal has failed, under every
\* controller root the directories Crane_Task_<id> left are those that
\* existed with id in S: every other one has been removed, and every one with
\* id in S is still present.
C3_ScanKeepsSurvivorsOnly ==
  (scan_pc = "done" /\ ~h_rm_failed) =>
    \A root \in DOMAIN cg_dirs : cg_dirs[root] = h_dirs0[root] \cap running_job_ids


\* C4: when the startup handshake reports CranedReady, the recovered jobs
\* are the jobs of CTLD whose Supervisor is alive, the nonexistent jobs are
\* the jobs of CTLD whose Supervisor is not, the two are disjoint and together
\* the jobs of CTLD, and the one CranedReady call carries exactly the
\* nonexistent jobs (each once).
C4_RecoveredAndNonexistentPartition ==
  LET nonexistent == {nonexistent_jobs[i] : i \in 1..Len(nonexistent_jobs)} IN
  /\ Len(craned_ready_calls) = (IF init_pc = "ready" THEN 1 ELSE 0)
  /\ init_pc \in {"cg_init", "recover", "ready", "exited"} =>
       /\ running_jobs = ctld_job_map \cap job_id_pid_map
       /\ nonexistent = ctld_job_map \ job_id_pid_map
       /\ Len(nonexistent_jobs) = Cardinality(nonexistent)
       /\ running_jobs \cap nonexistent = {}
       /\ running_jobs \cup nonexistent = ctld_job_map
  /\ init_pc = "ready" =>
       /\ craned_ready_calls = <<nonexistent_jobs>>
       /\ recover_calls = <<running_jobs>>

\* C4 witness: CranedReady was reported with a recovered and a nonexistent job.
C4_Witness ==
  /\ init_pc = "ready"
  /\ running_jobs # {}
  /\ nonexistent_jobs # <<>>
  /\ job_id_pid_map \ ctld_job_map = {}

\* C5 (as claimed): when the startup handshake has completed, every job whose
\* Supervisor is alive and whose id is absent from the jobs of CTLD has had
\* Terminate sent to its Supervisor, and is neither recovered nor nonexistent.
C5_UnknownAliveJobsTerminated ==
  init_pc = "ready" =>
    \A job_id \in job_id_pid_map \ ctld_job_map :
      /\ job_id \in terminate_sent
      /\ job_id \notin running_jobs
      /\ \A i \in 1..Len(nonexistent_jobs) : nonexistent_jobs[i] # job_id

\* The payloads of the TASK_OUTPUT requests written to the stream, in order.
TaskOutputs ==
  LET outs == SelectSeq(stream_writes, LAMBDA w : w.type = "TASK_OUTPUT")
  IN [i \in 1..Len(outs) |-> outs[i].msg]

\* The chunk the writer thread has dequeued and not written yet.
Held ==
  IF writer_pc \in {"while", "write"} /\ writer_output # 0
  THEN <<writer_output>> ELSE <<>>

\* C6: the TASK_OUTPUT payloads written to the stream are, in order and each
\* once, the first chunks read from the output fd; the chunks read and not
\* written yet are, in read order, the one the writer holds and those in the
\* output queue (so once the drain is complete every chunk read was written).
C6_OutputInReadOrder ==
  /\ Len(TaskOutputs) <= n_read
  /\ \A i \in 1..Len(TaskOutputs) : TaskOutputs[i] = i
  /\ TaskOutputs \o Held \o m_output_queue_ = [i \in 1..n_read |-> i]

\* C6 witness: two chunks were written while the fd watcher and the writer
\* were both running.
C6_Witness ==
  /\ Len(TaskOutputs) >= 2
  /\ writer_pc = "try_dequeue"
  /\ output_fd_open

\* C10 (as claimed, read in the code's favour): once the stop flag has been
\* set in the state Forwarding with the connection up, the state machine
\* reaches End (or the connection fails).
C10_StopLeadsToEnd ==
  (h_stopped_in = "Forwarding" /\ ~stream_broken)
    ~> (fwd_state = "End" \/ stream_broken)

\* C7 (as claimed, read in the code's favour): a timer that fired for an
\* instance in the task map leads to a status change for that instance being
\* handed to the controller client: ExceedTimeLimit, or the status of an end
\* that was processed first.
C7_TimerLeadsToExceedTimeLimit ==
  \A task_id \in Jobs, gen \in 1..MaxExec :
    (<<task_id, gen>> \in h_expired) ~>
      (\E i \in Handed(task_id, gen) :
         ctld_status_changes[i].new_status \in
           {"ExceedTimeLimit", "Completed", "Failed"})

\* C8 (as claimed, read in the code's favour): a user cancel requested for a
\* spawned job leads to a status change for that instance being handed over:
\* Cancelled with the signal-terminated exit code, or the status of an end
\* that was processed first.
C8_CancelLeadsToCancelled ==
  \A task_id \in Jobs, gen \in 1..MaxExec :
    (<<task_id, gen>> \in h_cancelled) ~>
      (\E i \in Handed(task_id, gen) :
         \/ /\ ctld_status_changes[i].new_status = "Cancelled"
            /\ ctld_status_changes[i].exit_code = "kExitCodeTerminated"
         \/ ctld_status_changes[i].new_status \in
              {"ExceedTimeLimit", "Completed", "Failed"})

\* C9 (as claimed): no status change is handed over for an instance whose
\* mark-as-orphaned terminate request was drained while it was in the map.
C9_OrphanedNeverHanded ==
  \A a \in h_orphaned : Handed(a[1], a[2]) = {}

\* C2: the child calls execv only after the parent's attach of the child pid
\* to the job's cgroup has succeeded and the child has read CanStart with
\* ok = true, which the parent sent after the attach; a child whose parent
\* failed to attach it, or that read ok = false or failed to read, has not
\* gone past its read of CanStart.
C2_ExecvOnlyAfterAttachAndCanStart ==
  LET past_read == sp_child \in {"setup_io", "send_ready", "execv", "running"} \/ h_execv
  IN /\ past_read => (in_cgroup /\ h_can_start = "ok")
     /\ h_can_start = "ok" => in_cgroup
     /\ \A i \in 1..Len(ctrl_to_child) : ctrl_to_child[i].ok => in_cgroup
     /\ (sp_parent = "AskChildToSuicide" \/ err_before_exec = "kCgroupError") => ~past_read
     /\ h_can_start \in {"suicide", "failed"} => (~past_read /\ ChildEnded(sp_child))

\* C2 witness: the child has called execv.
C2_Witness == h_execv /\ sp_child = "running" /\ sp_parent = "returned"

\* C11 (as claimed): once a failed read or write has put the state machine
\* into End, the stream thread leaves its loop and the writer thread has
\* terminated.
C11_FailureEndsBothThreads ==
  (fwd_state = "End" /\ stream_broken)
    ~> (stream_pc = "exited" /\ writer_pc \in {"none", "joined"})

\* The stream thread handles a successful read whose reply is of a type the
\* state does not expect.
HandlesUnexpectedReply ==
  /\ stream_pc = "AsyncNext"
  /\ m_cq_ # <<>>
  /\ m_cq_' = Tail(m_cq_)
  /\ Head(m_cq_).tag = "Read"
  /\ Head(m_cq_).ok
  /\ \/ fwd_state = "Forwarding" /\ Head(m_cq_).type # "TASK_INPUT"
     \/ fwd_state = "Unregistering" /\ Head(m_cq_).type # "UNREGISTER_REPLY"

\* C12 (as claimed): a reply of an unexpected type read in the state
\* Forwarding or Unregistering leaves the state as it is, writes nothing and
\* issues the next read.
C12_UnexpectedReplyReissuesRead ==
  [][HandlesUnexpectedReply =>
       /\ fwd_state' = fwd_state
       /\ stream_writes' = stream_writes
       /\ read_outstanding']_vars

\* The loop drains the execute queue.
DrainsExecuteQueue ==
  m_grpc_execute_task_queue_ # <<>> /\ m_grpc_execute_task_queue_' = <<>>

\* C13: when the execute queue is drained, an instance that is in the task
\* map already stays as it is, with its timer and its launches, whatever
\* requests name its task id; a task id that is named several times gets one
\* timer and one launch; no status change is enqueued, no process is touched.
C13_DuplicateExecuteIgnored ==
  [][DrainsExecuteQueue =>
       /\ \A id \in DOMAIN m_task_map_ :
            /\ id \in DOMAIN m_task_map_'
            /\ m_task_map_'[id] = m_task_map_[id]
            /\ {t \in timers' : t[1] = id} = {t \in timers : t[1] = id}
            /\ {l \in launches' : l.task_id = id} = {l \in launches : l.task_id = id}
       /\ \A id \in Jobs :
            /\ Cardinality({t \in timers' \ timers : t[1] = id}) <= 1
            /\ Cardinality({l \in launches' \ launches : l.task_id = id}) <= 1
       /\ UNCHANGED <<m_task_status_change_queue_, children, m_pid_task_map_,
                      ctld_status_changes>>]_vars

\* C13 witness: both execute requests were drained, the instance of the first
\* is in the map and no instance was ever erased, so the second request was
\* ignored; it has no timer and no launch.
C13_Witness ==
  /\ n_exec = 2
  /\ m_grpc_execute_task_queue_ = <<>>
  /\ 1 \in DOMAIN m_task_map_
  /\ m_task_map_[1].gen = 1
  /\ ctld_status_changes = <<>>
  /\ h_dropped = {}
  /\ timers = {<<1, 1, TimeLimitSec>>}
  /\ \A l \in launches : l.gen = 1

\* The pool thread runs LaunchTaskInstanceMt_ for the launch l of an instance
\* that is in the task map and whose user id has no password entry.
LaunchesUnknownUser(l) ==
  /\ l \in launches
  /\ l.pc = "start"
  /\ ~l.uid_valid
  /\ ~Dangling(l)
  /\ l \notin launches'

FailedElem(task_id, exit_code) ==
  TaskStatusChangeQueueElem(task_id, "Failed", exit_code, "pool")

RECURSIVE LastStage(_, _, _)
\* The value of name in the last of the first k stages that has it.
LastStage(stages, k, name) ==
  IF name \in DOMAIN stages[k] THEN stages[k][name]
  ELSE LastStage(stages, k - 1, name)

\* C15 (as claimed): at execv the child sees, for every variable of the six
\* stages, the value of the last stage that has the variable.
C15_LaterStageWins ==
  env_pc = "execv" =>
    LET stages == EnvStages(env_task) IN
    \A k \in 1..Len(stages) : \A name \in DOMAIN stages[k] :
      /\ name \in DOMAIN environ
      /\ environ[name] = LastStage(stages, Len(stages), name)

\* The loop drains the time-limit change queue, which holds one request.
HandlesOneChange ==
  /\ Len(m_task_time_limit_change_queue_) = 1
  /\ m_task_time_limit_change_queue_' = <<>>

TimeoutElem(task_id) ==
  [task_id |-> task_id, terminated_by_user |-> FALSE, mark_as_orphaned |-> FALSE,
   terminated_by_timeout |-> TRUE]

\* The timers of the instance of task_id that is in the task map.
TimersOf(ts, task_id) ==
  {t \in ts : t[1] = task_id /\ t[2] = m_task_map_[task_id].gen}

\* The timer is armed for exactly new_limit - elapsed.
ExactSeconds(s, limit, elapsed) ==
  s * TicksPerSec = limit * TicksPerSec - elapsed

\* The timer is armed for the whole seconds of new_limit - elapsed, the
\* elapsed time being read again (not earlier) when the timer is armed.
WholeSeconds(s, limit, elapsed) ==
  \E late \in 0..MaxLateTicks :
    s = ToInt64Seconds(limit * TicksPerSec - (elapsed + late))

\* What a handled change request does.  exact says which timer length is
\* asked for: exactly new_limit - elapsed, or its whole seconds.
ChangeRequestEffect(exact) ==
  LET elem == Head(m_task_time_limit_change_queue_)
      id   == elem.task_id
      res  == h_change'[Len(h_change')]
  IN /\ Len(h_change') = Len(h_change) + 1
     /\ IF id \in DOMAIN m_task_map_
        THEN /\ res.ok
             /\ timers' \ TimersOf(timers', id) = timers \ TimersOf(timers, id)
             /\ IF res.elapsed >= elem.time_limit * TicksPerSec
                THEN /\ TimersOf(timers', id) = {}
                     /\ m_task_terminate_queue_' =
                          Append(m_task_terminate_queue_, TimeoutElem(id))
                ELSE /\ Cardinality(TimersOf(timers', id)) = 1
                     /\ \A t \in TimersOf(timers', id) :
                          IF exact
                          THEN ExactSeconds(t[3], elem.time_limit, res.elapsed)
                          ELSE WholeSeconds(t[3], elem.time_limit, res.elapsed)
                     /\ UNCHANGED m_task_terminate_queue_
        ELSE /\ ~res.ok
             /\ UNCHANGED <<timers, m_task_terminate_queue_>>
     /\ UNCHANGED <<m_task_map_, m_grpc_execute_task_queue_,
                    m_task_status_change_queue_, m_check_task_status_queue_>>

\* C16 (as claimed): a change request for a job in the map disarms the job's
\* timer and then either enqueues a terminate and arms no timer (elapsed >=
\* new limit) or arms exactly one timer for new_limit - elapsed, and returns
\* true; for a job that is not in the map it returns false and changes no
\* timer and no queue.
C16_ChangeTimeLimitExact ==
  [][HandlesOneChange => ChangeRequestEffect(TRUE)]_vars

\* C16 (amended): as above, but the one timer is armed for the whole seconds
\* of new_limit - elapsed (the fraction of a second is dropped, and elapsed is
\* read again when the timer is armed).
C16_ChangeTimeLimitWholeSeconds ==
  [][HandlesOneChange => ChangeRequestEffect(FALSE)]_vars

\* C16 witness: a change request of a job in the map was answered true, and
\* the job's timer is the re-armed one, of 0 seconds.
C16_Witness ==
  /\ Len(h_change) = 1
  /\ h_change[1].ok
  /\ h_change[1].elapsed < h_change[1].time_limit * TicksPerSec
  /\ 1 \in DOMAIN m_task_map_
  /\ timers = {<<1, m_task_map_[1].gen, 0>>}

\* The loop drains the check-status queue, which holds one request.
HandlesOneCheck ==
  /\ Len(m_check_task_status_queue_) = 1
  /\ m_check_task_status_queue_' = <<>>

Range(f) == {f[i] : i \in DOMAIN f}

\* C17: a check of job J answers Running exactly when J is in the task map;
\* otherwise, when a status change of J waits in the controller client, it is
\* withdrawn and its status is the answer; otherwise the answer is not ok.
\* A withdrawn status change is never delivered to CTLD.
C17_CheckTaskStatus ==
  [][/\ HandlesOneCheck =>
          LET id  == Head(m_check_task_status_queue_).task_id
              res == h_check'[Len(h_check')]
          IN /\ Len(h_check') = Len(h_check) + 1
             /\ (res.ok /\ res.status = "Running") <=> id \in DOMAIN m_task_map_
             /\ IF id \in DOMAIN m_task_map_
                THEN UNCHANGED ctld_pending
                ELSE IF PendingOf(ctld_pending, id) # {}
                THEN \E i \in PendingOf(ctld_pending, id) :
                       /\ res.ok
                       /\ res.status = ctld_pending[i].new_status
                       /\ res.withdrawn = <<ctld_pending[i]>>
                       /\ ctld_pending' = SubSeq(ctld_pending, 1, i - 1)
                                            \o SubSeq(ctld_pending, i + 1,
                                                      Len(ctld_pending))
                ELSE ~res.ok /\ UNCHANGED ctld_pending
             /\ UNCHANGED <<m_task_map_, timers, ctld_sent, ctld_status_changes>>
     /\ \A k \in 1..Len(h_check') : \A sc \in Range(h_check'[k].withdrawn) :
          sc \notin Range(ctld_sent') /\ sc \notin Range(ctld_pending')]_vars

\* C17 witness: a check was answered with the status of a withdrawn status
\* change while another status change went to CTLD.
C17_Witness ==
  /\ Len(h_check) = 1
  /\ h_check[1].ok
  /\ h_check[1].withdrawn # <<>>
  /\ ctld_sent # <<>>

\* AllocateAndGetJobCgroup has returned (the handle may since have been
\* destroyed).
AllocateReturned == cg_pc \in {"returned", "destroy", "erase", "dropped"}

\* C18: an allocation with recover_flag = true that has returned did no CPU,
\* memory, swap or device-deny write, attached no program and called no plugin
\* hook; one with recover_flag = false that has returned attempted the CPU
\* and the memory limit write, and returned no handle if either failed.
C18_RecoverWritesNoLimit ==
  AllocateReturned =>
    IF cg_spec.recovered
    THEN cg_done \cap (LimitWrites \cup {"deny", "attach", "hook"}) = {}
    ELSE /\ {"cpu", "mem"} \subseteq cg_done
         /\ cg_failed \cap {"cpu", "mem"} # {} => cg_ret = "null"

\* C18 witness: a non-recover allocation whose CPU write succeeded and whose
\* memory limit write failed has returned.
C18_Witness ==
  /\ ~cg_spec.recovered
  /\ AllocateReturned
  /\ "cpu" \in cg_done /\ "cpu" \notin cg_failed
  /\ "mem" \in cg_failed
  /\ cg_ret = "null"

\* C19: when create-or-open yields no handle, allocate does not crash, does
\* nothing through the absent handle, and what it returns is the error
\* result.
C19_NoHandleIsError ==
  cg_unique_ptr = "null" =>
    /\ cg_pc # "crashed"
    /\ cg_done = {}
    /\ cg_pc = "returned" => cg_ret = "null"

\* C20: while a unified cgroup's handle is being destroyed, the directory is
\* not gone while an entry of the handle's devices, keyed by the cgroup, is
\* still in the device map.
C20_MapErasedBeforeDirectory ==
  cg_unique_ptr = "V2" /\ cg_pc = "erase" =>
    ~(~cg_dir /\ DevicesOf(bpf_dev_map, "this") \cap m_cgroup_bpf_devices # {})

\* C21: an eviction (EraseBpfDeviceMap) that no failure of the environment
\* stopped leaves no key of the handle's devices in the map, whichever of
\* those keys were absent when it began.
C21_EvictionToleratesPartial ==
  cg_pc = "dropped" /\ "erase" \in cg_done /\ "erase" \notin cg_failed =>
    DevicesOf(bpf_dev_map, "this") \cap m_cgroup_bpf_devices = {}

\* The keys a fresh allocation of the job installs in the map.
FreshDevices == DeniedDevices(cg_spec.node, cg_spec.request)

\* C22: after a unified cgroup's handle is dropped, built by a fresh
\* allocation or by recovery of a job whose fresh allocation had installed its
\* keys, and with no map operation failing, the map holds no key of the
\* cgroup; the keys of the other job are never changed; and recovery rebuilds
\* exactly the devices a fresh allocation installs.
C22_DropErasesOwnKeysOnly ==
  /\ (/\ cg_pc = "dropped" /\ cg_unique_ptr = "V2" /\ cg_spec.bpf
      /\ cg_failed \cap {"erase", "recover"} = {}
      /\ cg_spec.recovered => cg_spec.installed = FreshDevices)
       => DevicesOf(bpf_dev_map, "this") = {}
  /\ DevicesOf(bpf_dev_map, "other") = cg_spec.others
  /\ "rebuild" \in cg_done => m_cgroup_bpf_devices = FreshDevices

\* C22 witness: a recovered handle was dropped, its keys were erased and the
\* keys of the other job are still in the map.
C22_Witness ==
  /\ cg_pc = "dropped"
  /\ cg_spec.recovered
  /\ cg_spec.installed # {}
  /\ "erase" \in cg_done /\ "erase" \notin cg_failed
  /\ cg_spec.others \cap cg_spec.installed # {}
  /\ bpf_dev_map = KeysOf("other", cg_spec.others)

\* The device files the allocation denied: written to devices.deny (V1) or
\* installed as keys of the cgroup in the map (V2).
DeniedByAllocation ==
  IF cg_unique_ptr = "V1" THEN cg_devices_deny
  ELSE DevicesOf(bpf_dev_map, "this")

\* A non-recover allocation has returned a handle and no device write failed.
DevicesAllocated ==
  /\ ~cg_spec.recovered
  /\ cg_pc = "returned"
  /\ cg_ret \in {"V1", "V2"}
  /\ cg_ret = "V2" => cg_spec.bpf
  /\ "deny" \notin cg_failed

\* C27: after a non-recover allocation the denied device files are exactly
\* those of the node devices whose slot is not in the allocation, and none is
\* denied when the job has no allocated device.
C27_DenyOnlyWithAllocatedDevices ==
  DevicesAllocated =>
    DeniedByAllocation = IF cg_spec.request = {} THEN {}
                         ELSE DeniedDevices(cg_spec.node, cg_spec.request)

\* C28: the CPU quota written is round(65536 * cores) with period 65536, in
\* the legacy and in the unified variant.
C28_QuotaIsRounded ==
  cg_cpu_max # <<>> =>
    cg_cpu_max = <<Round(65536 * cg_spec.cores, 10), 65536>>

\* The live handles that hold a reference to the BPF object.
LiveRefs == {h \in DOMAIN bpf_handles : bpf_handles[h] = "ref"}

\* C23: the reference count of the filter program equals the number of live
\* handles that took a reference, and the program is loaded exactly while
\* there is one: it is not unloaded while such a handle is live, and it is
\* unloaded when the last is dropped.
C23_RefCountIsLiveHandles ==
  /\ cgroup_count_ = Cardinality(LiveRefs)
  /\ bpf_obj_ <=> LiveRefs # {}

\* C24: after SIGINT has set the ending flag, the loop stops, the RPC server
\* is shut down and the agent exits with code 0.
C24_SigintLeadsToExit == m_is_ending_now_ ~> AgentExited

\* C25: once the ending flag is set no execute request is accepted: no
\* ExecuteTaskAsync call puts an instance into the execute queue.
C25_NoAdmissionWhenEnding ==
  [][m_is_ending_now_ =>
       /\ n_exec' = n_exec
       /\ Len(m_grpc_execute_task_queue_') <= Len(m_grpc_execute_task_queue_)]_vars

\* The calls of the child that the CanStart message is said to gate.
GatedCalls == {"setgroups", "setresgid", "setresuid", "chdir", "setpgid"}

\* C30: the forked child makes none of the calls setgroups, setresgid,
\* setresuid, chdir and setpgid before it has read CanStart with ok = true.
C30_CredentialsOnlyAfterCanStart ==
  [][(sp_child \in GatedCalls /\ sp_child' # sp_child) => h_can_start = "ok"]_vars

\* fork() (or forkpty()) has returned a child pid to the parent.
ForkSucceeded == sp_child # "idle"

SyntheticSpawnFailure ==
  [new_status |-> "Failed", exit_code |-> "kExitCodeSpawnProcessFail"]

TokenWrites == {"SUPERVISOR_REGISTER", "TASK_OUTPUT"}

\* The writes on the stream whose completion the stream thread has not yet
\* got from AsyncNext: started in gRPC, or done with the tag still queued.
OutstandingWrites ==
  Cardinality({i \in 1..Len(grpc_inflight) : grpc_inflight[i] # "Prepare"})
    + Cardinality({i \in 1..Len(m_cq_) : m_cq_[i].tag = "Write"})

\* C29: at most one write is outstanding on the stream at every moment; no
\* write (REGISTER, TASK_OUTPUT, UNREGISTER) is issued while the write-pending
\* token is held; the token is released only by the stream thread handling
\* the completion of the write that took it.
C29_OneOutstandingWrite ==
  /\ [](OutstandingWrites <= 1)
  /\ [][Len(stream_writes') > Len(stream_writes) => ~write_pending]_vars
  /\ [][(write_pending /\ ~write_pending') =>
          /\ m_cq_ # <<>>
          /\ Head(m_cq_).tag = "Write"
          /\ stream_writes[Len(stream_writes)].type \in TokenWrites
          /\ OutstandingWrites = 1]_vars

\* C29 witness: the writer thread holds a chunk and waits while the write of
\* the chunk before it is outstanding.
C29_Witness ==
  /\ writer_pc = "write"
  /\ write_pending
  /\ OutstandingWrites = 1
  /\ Len(stream_writes) >= 2
  /\ stream_writes[Len(stream_writes)].type = "TASK_OUTPUT"

C37_PidIndexPointsToLiveInstance ==
  \A e \in m_pid_task_map_ :
    /\ e.task_id \in DOMAIN m_task_map_
    /\ m_task_map_[e.task_id].gen = e.gen

\* C38: an instance is never erased from the task map while its launch is
\* still running on the thread pool.
C38_InstanceOutlivesLaunch ==
  \A l \in launches : ~Dangling(l)

\* The output of the child is closed and marked finished.
OutputFinished == ~poll_active /\ ~out_fd_open /\ h_finish_ret # <<>>

\* C32: after each readiness event on the child's output fd: a read of 0
\* bytes on a fd that is no pty, or the error EIO on a pty, has closed the fd
\* and marked the output finished; EAGAIN has left the watcher active; any
\* other read error has closed the fd and marked the output finished;
\* otherwise the bytes read, at most the size of the buffer, are the last
\* chunk of the queue.
C32_PollCallbackContract ==
  out_last # <<>> =>
    LET r == out_last IN
    IF r.ret = -1
    THEN IF r.errno = "EAGAIN" THEN poll_active /\ out_fd_open
         ELSE OutputFinished
    ELSE IF r.ret = 0 /\ ~out_pty THEN OutputFinished
    ELSE /\ r.ret <= MaxBufSize
         /\ out_chunks # <<>>
         /\ out_chunks[Len(out_chunks)] = r.ret

\* C39: of TaskOutputFinish and TaskProcessStop for one pid, the call that
\* happens first returns false and the call that happens second returns
\* true, in either order; so TaskEnd is called exactly once, and only after
\* both the output has finished and the process has stopped.
C39_SecondCallEndsTask ==
  /\ Len(h_finish_ret) <= 1
  /\ Len(h_stop_ret) <= 1
  /\ (h_finish_ret = <<>> /\ h_stop_ret = <<>>) => n_task_end = 0
  /\ (h_finish_ret # <<>> /\ h_stop_ret = <<>>) => (~h_finish_ret[1] /\ n_task_end = 0)
  /\ (h_finish_ret = <<>> /\ h_stop_ret # <<>>) => (~h_stop_ret[1] /\ n_task_end = 0)
  /\ (h_finish_ret # <<>> /\ h_stop_ret # <<>>) =>
       (h_finish_ret[1] # h_stop_ret[1] /\ n_task_end = 1)

\* The messages a registered child was offered: those handled since its
\* registration, up to the one during which a write to it failed.
OfferedTo(p) ==
  {m \in (in_since[p] + 1)..Len(in_sizes) : in_failed[p] = 0 \/ m <= in_failed[p]}

\* C33: each TASK_INPUT message is written in full to every registered
\* child whose input is not stopped; a child is flagged stopped exactly when
\* a write to it has failed, and no later message is written to it; the other
\* children get every later message; a stream read is issued after every
\* message.
C33_InputReachesEveryLiveChild ==
  /\ n_stream_read = Len(in_sizes)
  /\ \A p \in Pids \ in_registered : in_got[p] = <<>>
  /\ \A p \in in_registered :
       /\ (p \in in_stopped) <=> (in_failed[p] # 0)
       /\ Len(in_got[p]) = Cardinality(OfferedTo(p))
       /\ \A k \in 1..Len(in_got[p]) :
            LET w == in_got[p][k] IN
            /\ w.msg = in_since[p] + k
            /\ IF w.msg = in_failed[p] THEN w.bytes < in_sizes[w.msg]
               ELSE w.bytes = in_sizes[w.msg]

\* C33 witness: a write to one child failed during the first message, and the
\* other child got the whole of the first and of the second message.
C33_Witness ==
  /\ Len(in_sizes) = 2
  /\ \E p, q \in in_registered :
       /\ in_failed[p] = 1
       /\ Len(in_got[p]) = 1
       /\ in_failed[q] = 0
       /\ Len(in_got[q]) = 2
       /\ in_got[q][2].bytes = MaxMsgSize

\* C34: every synchronous cross-loop request wakes the handle whose callback
\* drains the queue the request is in, so that while the loop is running its
\* promise eventually gets its value, and gets it once.
C34_SyncRequestAnswered ==
  /\ [](\A i \in 1..MaxSyncReq : sync_fulfilled[i] <= 1)
  /\ \A i \in 1..MaxSyncReq : (i <= n_sreq) ~> (sync_fulfilled[i] = 1)

\* C35: the legacy recovery scan terminates for every directory listing and
\* every surviving-job set: the walk always advances, also past an entry
\* whose job id is in the surviving set.
C35_LegacyScanTerminates ==
  (cg_version_ = "CGROUP_V1" /\ scan_pc = "walk") ~> (scan_pc = "done")

\* C36: the enumeration of the device map's keys, at teardown and in the
\* recovery scan, visits each key once and ends: it never counts more keys
\* than the map holds, the count it ends with is the number of keys, and at
\* teardown the map is removed exactly when no key of a job is left.
C36_EnumerationCountsEachKeyOnce ==
  /\ bpf_map_count <= Len(key_order)
  /\ key_pc = "done" =>
       /\ bpf_map_count = Len(key_order)
       /\ key_caller = "dtor" => (rm_bpf_map <=> Len(key_order) = 1)

\* The stream thread takes an event from the completion queue.
HandlesEvent ==
  /\ stream_pc = "AsyncNext"
  /\ m_cq_ # <<>>
  /\ m_cq_' = Tail(m_cq_)

\* C40: the assertions of the stream state machine hold whenever an event is
\* handled, whenever the stop flag is set: in Registering the event is the
\* stream-ready tag, in Forwarding and Unregistering it is a write or a read
\* completion; and UNREGISTER is sent only once the stream is ready.
C40_StreamAssertionsHold ==
  /\ [][HandlesEvent =>
          ~Switch(StateOnEvent(fwd_state, Head(m_cq_)), Head(m_cq_),
                  write_pending).assert_fails]_vars
  /\ [][(fwd_state # "Unregistering" /\ fwd_state' = "Unregistering") =>
          \A i \in 1..Len(grpc_inflight) : grpc_inflight[i] # "Prepare"]_vars

====
